---- MODULE Spec2Model ----
(***************************************************************************)
(* Single-cell explorer: the page state (dataset, settings, selected       *)
(* cells), the cluster annotation tool, the scatter plot (camera, pointer  *)
(* gestures, selection) and the numeric helpers they use.                  *)
(*                                                                         *)
(* JavaScript numbers are modelled as exact rationals extended with the    *)
(* IEEE special values +Infinity, -Infinity and NaN: a number is a pair    *)
(* <<n, d>> in lowest terms with d >= 0, where <<1, 0>> is +Infinity,       *)
(* <<-1, 0>> is -Infinity and <<0, 0>> is NaN.  Rounding of finite results *)
(* is not modelled.                                                        *)
(***************************************************************************)
EXTENDS Integers, Sequences, FiniteSets, TLC

\* ------------------------------------------------------------------------
\* Numbers
\* ------------------------------------------------------------------------
Abs(i) == IF i < 0 THEN -i ELSE i

Sign(i) == IF i < 0 THEN -1 ELSE IF i > 0 THEN 1 ELSE 0

RECURSIVE Gcd(_, _)
Gcd(a, b) == IF b = 0 THEN a ELSE Gcd(b, a % b)

\* the number n/d in lowest terms; d = 0 gives an infinity or NaN
Norm(n, d) ==
  IF d = 0 THEN <<Sign(n), 0>>
  ELSE IF n = 0 THEN <<0, 1>>
  ELSE LET g == Gcd(Abs(n), Abs(d))
           s == IF d < 0 THEN -1 ELSE 1
       IN  <<(s * n) \div g, (s * d) \div g>>

R(i) == <<i, 1>>
NaN == <<0, 0>>
PosInf == <<1, 0>>
NegInf == <<-1, 0>>

IsNaN(a) == a = NaN
IsFinite(a) == a[2] # 0

RAdd(a, b) ==
  IF a[2] = 0 /\ b[2] = 0
  THEN (IF a = b THEN a ELSE NaN)
  ELSE Norm(a[1] * b[2] + b[1] * a[2], a[2] * b[2])

RNeg(a) == <<-a[1], a[2]>>
RSub(a, b) == RAdd(a, RNeg(b))
RMul(a, b) == Norm(a[1] * b[1], a[2] * b[2])
RDiv(a, b) ==
  IF b[1] < 0 THEN Norm(-(a[1] * b[2]), a[2] * (-b[1]))
  ELSE Norm(a[1] * b[2], a[2] * b[1])

\* IEEE comparisons: every comparison with NaN is false
RLt(a, b) ==
  /\ ~IsNaN(a) /\ ~IsNaN(b)
  /\ IF a[2] = 0 \/ b[2] = 0
     THEN (a # b /\ (a = NegInf \/ b = PosInf))
     ELSE a[1] * b[2] < b[1] * a[2]
REq(a, b) == ~IsNaN(a) /\ ~IsNaN(b) /\ a = b
RLe(a, b) == RLt(a, b) \/ REq(a, b)
RGt(a, b) == RLt(b, a)
RGe(a, b) == RLe(b, a)

\* Math.min / Math.max of two numbers (NaN if either is NaN)
RMin(a, b) == IF IsNaN(a) \/ IsNaN(b) THEN NaN ELSE IF RLt(b, a) THEN b ELSE a
RMax(a, b) == IF IsNaN(a) \/ IsNaN(b) THEN NaN ELSE IF RLt(a, b) THEN b ELSE a

\* Math.floor / Math.ceil / Math.round of a finite number, as an integer
Floor(a) == a[1] \div a[2]
Ceil(a) == -((-a[1]) \div a[2])
Round(a) == (2 * a[1] + a[2]) \div (2 * a[2])


\* ------------------------------------------------------------------------
\* Sequence helpers (Array.prototype.includes)
\* ------------------------------------------------------------------------
Range(s) == {s[i] : i \in DOMAIN s}
Includes(s, e) == \E i \in DOMAIN s : s[i] = e

\* ------------------------------------------------------------------------
\* Dataset Model
\* ------------------------------------------------------------------------
Null == "null"

\* a nullable number or object: None is null, Some(v) holds v
None == << >>
Some(v) == <<v>>
Val(o) == o[1]

Cell(id, x, y, cluster, sample, cellType) ==
  [id |-> id, x |-> x, y |-> y, cluster |-> cluster,
   sample |-> sample, cell_type |-> cellType]

ClusterInfo(id, name, cellCount, color) ==
  [id |-> id, name |-> name, cellCount |-> cellCount, color |-> color]

\* number of cells of a cell list whose cluster is id
CountInCluster(cells, id) == Cardinality({i \in DOMAIN cells : cells[i].cluster = id})

\* generateDemoDataset scaled down to four cells in three clusters; the cell
\* counts are tallied from the cells and clusterCount is clusters.length
DemoCells ==
  << Cell("c1", 0, 0, 0, "Sample_1", "Cardiomyocytes"),
     Cell("c2", 10, 10, 1, "Sample_1", "Endothelial"),
     Cell("c3", 100, 100, 2, "Sample_2", "Fibroblasts"),
     Cell("c4", 40, 60, 1, "Sample_2", "Endothelial") >>

DemoClusterInfo ==
  << ClusterInfo(0, "Cardiomyocytes", 0, "rgb(52,152,165)"),
     ClusterInfo(1, "Endothelial", 0, "rgb(215,95,130)"),
     ClusterInfo(2, "Fibroblasts", 0, "rgb(210,180,60)") >>

TallyCounts(clusters, cells) ==
  [i \in DOMAIN clusters |->
     [clusters[i] EXCEPT !.cellCount = CountInCluster(cells, clusters[i].id)]]

generateDemoDataset ==
  LET clusters == TallyCounts(DemoClusterInfo, DemoCells)
  IN  [cells |-> DemoCells, clusters |-> clusters,
       clusterCount |-> Len(clusters), expression |-> << >>]

\* datasets a user can upload, as normalizeDataset returns them
\* (metadata.clusterCount is clusters.length)
UploadThree ==
  LET cells == << Cell("u1", 0, 0, 0, "Sample_1", "Alpha"),
                  Cell("u2", 10, 10, 0, "Sample_2", "Alpha"),
                  Cell("u3", 100, 100, 1, "Sample_2", "Beta") >>
      clusters == << ClusterInfo(0, "Alpha", 2, "red"), ClusterInfo(1, "Beta", 1, "blue") >>
  IN  [cells |-> cells, clusters |-> clusters, clusterCount |-> Len(clusters),
       expression |-> [g \in {"A", "B"} |->
                         IF g = "A" THEN [c \in {"u1", "u2"} |-> IF c = "u1" THEN 2 ELSE 4]
                         ELSE [c \in {"u2"} |-> 6]]]

UploadSingle ==
  LET cells == << Cell("s1", 5, 5, 0, "Sample_1", "Solo") >>
      clusters == << ClusterInfo(0, "Solo", 1, "green") >>
  IN  [cells |-> cells, clusters |-> clusters, clusterCount |-> Len(clusters),
       expression |-> << >>]

Uploads == {UploadThree, UploadSingle}

defaultCellFilter == [selectedSamples |-> << >>, selectedClusters |-> << >>]

defaultSettings ==
  [selectedGene |-> Null, selectedGenes |-> << >>, cellFilter |-> defaultCellFilter,
   usePercentileClipping |-> TRUE, percentileLow |-> 5, percentileHigh |-> 95,
   showAveragedExpression |-> TRUE]

VARIABLES
  \* Index page
  dataset, originalDataset, settings, pageSelectedCells,
  \* ClusterAnnotationTool
  mergeSourceIds, mergeTargetId, mergedName,
  renameClusterId, renameTo, colorClusterId, selectedColor,
  \* DatasetUploader: its state, and the files whose file.text() is pending
  validation, pendingData, fileName, reads,
  \* ScatterPlot
  dimensions, transform, isPanning, panStart, selectionMode, isSelecting,
  lassoPoints, rectSelection, selectedCells,
  \* model bookkeeping: the number of pointer and button events the scatter
  \* plot has handled (capped, to bound the runs), the last handler run (with
  \* the part of its pre-state that later formulas refer to), and the argument
  \* and result of a helper applied on its own
  events, lastOp, arg, res

vars == <<dataset, originalDataset, settings, pageSelectedCells,
          mergeSourceIds, mergeTargetId, mergedName,
          renameClusterId, renameTo, colorClusterId, selectedColor,
          validation, pendingData, fileName, reads,
          dimensions, transform, isPanning, panStart, selectionMode, isSelecting,
          lassoPoints, rectSelection, selectedCells,
          events, lastOp, arg, res>>

pageVars == <<dataset, originalDataset, settings, pageSelectedCells>>
mergeVars == <<mergeSourceIds, mergeTargetId, mergedName>>
renameVars == <<renameClusterId, renameTo>>
colorVars == <<colorClusterId, selectedColor>>
toolVars == <<mergeVars, renameVars, colorVars>>
uploaderVars == <<validation, pendingData, fileName, reads>>
cameraVars == <<dimensions, transform, isPanning, panStart>>
selectionVars == <<selectionMode, isSelecting, lassoPoints, rectSelection, selectedCells>>
counterVars == <<events>>
helperVars == <<arg, res>>

NoOp == [op |-> "none"]

\* one more event handled, while fewer than cap have been
Handled(cap) == events < cap /\ events' = events + 1

\* the state after Index, ClusterAnnotationTool and ScatterPlot are constructed
InitPage ==
  /\ dataset = generateDemoDataset
  /\ originalDataset = generateDemoDataset
  /\ settings = defaultSettings
  /\ pageSelectedCells = << >>

InitTool ==
  /\ mergeSourceIds = << >>
  /\ mergeTargetId = None
  /\ mergedName = ""
  /\ renameClusterId = None
  /\ renameTo = ""
  /\ colorClusterId = None
  /\ selectedColor = "#3498db"

InitUploader ==
  /\ validation = None
  /\ pendingData = None
  /\ fileName = None
  /\ reads = {}

InitScatterPlot ==
  /\ dimensions = [width |-> 600, height |-> 500]
  /\ transform = [x |-> R(0), y |-> R(0), scale |-> R(1)]
  /\ isPanning = FALSE
  /\ panStart = [x |-> R(0), y |-> R(0)]
  /\ selectionMode = "none"
  /\ isSelecting = FALSE
  /\ lassoPoints = << >>
  /\ rectSelection = None
  /\ selectedCells = {}

InitBookkeeping ==
  /\ events = 0
  /\ lastOp = NoOp
  /\ arg = None
  /\ res = None

Init == InitPage /\ InitTool /\ InitUploader /\ InitScatterPlot /\ InitBookkeeping

\* ------------------------------------------------------------------------
\* Index: dataset load and cluster annotation handlers
\* ------------------------------------------------------------------------
ClusterIds(ds) == {ds.clusters[i].id : i \in DOMAIN ds.clusters}

\* clusters.find(c => c.id === id)?.name
ClusterNameOf(clusters, id) ==
  IF \E i \in DOMAIN clusters : clusters[i].id = id
  THEN clusters[CHOOSE i \in DOMAIN clusters :
                  /\ clusters[i].id = id
                  /\ \A j \in DOMAIN clusters : clusters[j].id = id => i <= j].name
  ELSE ""

handleMergeClusters(prev, sourceIds, targetId, name) ==
  LET newCells == [i \in DOMAIN prev.cells |->
                     IF Includes(sourceIds, prev.cells[i].cluster)
                     THEN [prev.cells[i] EXCEPT !.cluster = targetId, !.cell_type = name]
                     ELSE prev.cells[i]]
      mergedCellCount == CountInCluster(newCells, targetId)
      kept == SelectSeq(prev.clusters, LAMBDA c : ~Includes(sourceIds, c.id))
      newClusters == [i \in DOMAIN kept |->
                        IF kept[i].id = targetId
                        THEN [kept[i] EXCEPT !.name = name, !.cellCount = mergedCellCount]
                        ELSE kept[i]]
  IN  [prev EXCEPT !.cells = newCells, !.clusters = newClusters,
                   !.clusterCount = Len(newClusters)]

\* a load that resets the selected genes and keeps the cell filter
handleDatasetLoadKeepingFilter(newDataset) ==
  /\ dataset' = newDataset
  /\ originalDataset' = newDataset
  /\ settings' = [settings EXCEPT !.selectedGene = Null, !.selectedGenes = << >>]
  /\ UNCHANGED pageSelectedCells

handleDatasetLoad(newDataset) ==
  /\ dataset' = newDataset
  /\ originalDataset' = newDataset
  /\ settings' = [settings EXCEPT !.selectedGene = Null, !.selectedGenes = << >>,
                                  !.cellFilter = defaultCellFilter]
  /\ UNCHANGED pageSelectedCells

\* DatasetUploader: "Load Dataset" hands a validated, normalized upload to the page
DatasetLoad ==
  \E d \in Uploads :
    /\ handleDatasetLoad(d)
    /\ lastOp' = [op |-> "DatasetLoad", pre |-> settings]
    /\ UNCHANGED <<toolVars, uploaderVars, cameraVars, selectionVars, counterVars, helperVars>>

\* a reset that restores the cluster list alone
handleResetClusterListOnly ==
  /\ dataset' = [dataset EXCEPT !.clusters = originalDataset.clusters,
                                !.clusterCount = originalDataset.clusterCount]
  /\ lastOp' = [op |-> "Reset", pre |-> dataset]
  /\ UNCHANGED <<originalDataset, settings, pageSelectedCells, toolVars, uploaderVars,
                 cameraVars, selectionVars, counterVars, helperVars>>

handleResetClusters ==
  /\ dataset' = originalDataset
  /\ lastOp' = [op |-> "Reset", pre |-> dataset]
  /\ UNCHANGED <<originalDataset, settings, pageSelectedCells, toolVars, uploaderVars, cameraVars,
                 selectionVars, counterVars, helperVars>>

\* ------------------------------------------------------------------------
\* ClusterAnnotationTool: merge tab
\* ------------------------------------------------------------------------
\* a source button exists for every cluster currently in the list
toggleMergeSource(cap) ==
  \E id \in ClusterIds(dataset) :
    /\ Handled(cap)
    /\ mergeSourceIds' = IF Includes(mergeSourceIds, id)
                         THEN SelectSeq(mergeSourceIds, LAMBDA x : x # id)
                         ELSE Append(mergeSourceIds, id)
    /\ lastOp' = [op |-> "toggleMergeSource"]
    /\ UNCHANGED <<pageVars, mergeTargetId, mergedName, renameVars, colorVars,
                   uploaderVars, cameraVars, selectionVars, helperVars>>

\* the target select offers the clusters that are not currently sources
setMergeTargetId(cap) ==
  \E id \in ClusterIds(dataset) :
    /\ Handled(cap)
    /\ ~Includes(mergeSourceIds, id)
    /\ mergeTargetId' = Some(id)
    /\ lastOp' = [op |-> "setMergeTargetId"]
    /\ UNCHANGED <<pageVars, mergeSourceIds, mergedName, renameVars, colorVars,
                   uploaderVars, cameraVars, selectionVars, helperVars>>

MergedNames == {"", "Merged cells"}

setMergedName(cap) ==
  \E n \in MergedNames :
    /\ Handled(cap)
    /\ mergedName' = n
    /\ lastOp' = [op |-> "setMergedName"]
    /\ UNCHANGED <<pageVars, mergeSourceIds, mergeTargetId, renameVars, colorVars,
                   uploaderVars, cameraVars, selectionVars, helperVars>>

targetNeverAmongSources(sourceIds, targetId) == FALSE

\* mergeSourceIds.includes(mergeTargetId)
targetAmongSources(sourceIds, targetId) == Includes(sourceIds, targetId)

handleMerge(cap) ==
  /\ Handled(cap)
  /\ IF Len(mergeSourceIds) = 0 \/ mergeTargetId = None
       THEN /\ lastOp' = [op |-> "MergeRejected", why |-> "select",
                          sourceIds |-> mergeSourceIds, targetId |-> mergeTargetId, pre |-> dataset]
            /\ UNCHANGED <<pageVars, toolVars, uploaderVars, cameraVars, selectionVars, helperVars>>
       ELSE IF targetAmongSources(mergeSourceIds, Val(mergeTargetId))
       THEN /\ lastOp' = [op |-> "MergeRejected", why |-> "target",
                          sourceIds |-> mergeSourceIds, targetId |-> mergeTargetId, pre |-> dataset]
            /\ UNCHANGED <<pageVars, toolVars, uploaderVars, cameraVars, selectionVars, helperVars>>
       ELSE LET targetName == ClusterNameOf(dataset.clusters, Val(mergeTargetId))
                name == IF mergedName # "" THEN mergedName
                        ELSE IF targetName # "" THEN targetName ELSE "Merged"
            IN  /\ dataset' = handleMergeClusters(dataset, mergeSourceIds, Val(mergeTargetId), name)
                /\ mergeSourceIds' = << >>
                /\ mergeTargetId' = None
                /\ mergedName' = ""
                /\ lastOp' = [op |-> "Merge", sourceIds |-> mergeSourceIds,
                              targetId |-> Val(mergeTargetId), name |-> name, pre |-> dataset]
                /\ UNCHANGED <<originalDataset, settings, pageSelectedCells, renameVars,
                               colorVars, uploaderVars, cameraVars, selectionVars, helperVars>>

MaxMergeEvents == 6

Next ==
  \/ DatasetLoad
  \/ handleResetClusters
  \/ toggleMergeSource(MaxMergeEvents)
  \/ setMergeTargetId(MaxMergeEvents)
  \/ setMergedName(MaxMergeEvents)
  \/ handleMerge(MaxMergeEvents)

Spec == Init /\ [][Next]_vars

\* ------------------------------------------------------------------------
\* Settings: Index.handleSettingsChange and the controls that call it
\* ------------------------------------------------------------------------
\* setSettings(prev => ({ ...prev, ...updates }))
handleSettingsChange(prev, updates) ==
  [k \in DOMAIN prev |-> IF k \in DOMAIN updates THEN updates[k] ELSE prev[k]]

\* positions the two thumbs of the percentile slider are moved to (min 0, max 100)
PercentileValues == {0, 5, 10, 50, 95, 96, 100}

percentileAcceptsLoose(low, high) == low <= high

\* the slider's onValueChange forwards the pair only if (low < high)
percentileAccepts(low, high) == low < high

percentileSliderChange ==
  \E low \in PercentileValues, high \in PercentileValues :
    /\ settings.usePercentileClipping
    /\ settings' = IF percentileAccepts(low, high)
                   THEN handleSettingsChange(settings,
                          [percentileLow |-> low, percentileHigh |-> high])
                   ELSE settings
    /\ lastOp' = [op |-> "PercentileSlider", low |-> low, high |-> high, pre |-> settings]
    /\ UNCHANGED <<dataset, originalDataset, pageSelectedCells, toolVars, uploaderVars, cameraVars,
                   selectionVars, counterVars, helperVars>>

percentileClippingSwitch ==
  \E checked \in BOOLEAN :
    /\ settings.selectedGene # Null \/ Len(settings.selectedGenes) > 0
    /\ settings' = handleSettingsChange(settings, [usePercentileClipping |-> checked])
    /\ lastOp' = [op |-> "PercentileSwitch"]
    /\ UNCHANGED <<dataset, originalDataset, pageSelectedCells, toolVars, uploaderVars, cameraVars,
                   selectionVars, counterVars, helperVars>>

GeneNames == {"A", "B", "MYH7"}

\* GeneSearch: pick a gene, or clear the selection
geneSelect ==
  \E gene \in GeneNames \cup {Null} :
    /\ settings' = handleSettingsChange(settings, [selectedGene |-> gene])
    /\ lastOp' = [op |-> "GeneSelect"]
    /\ UNCHANGED <<dataset, originalDataset, pageSelectedCells, toolVars, uploaderVars, cameraVars,
                   selectionVars, counterVars, helperVars>>

NextSettings ==
  \/ percentileSliderChange
  \/ percentileClippingSwitch
  \/ geneSelect

SpecSettings == Init /\ [][NextSettings]_vars

\* ------------------------------------------------------------------------
\* ScatterPlot: derived values (useMemo) and coordinate transforms
\* ------------------------------------------------------------------------
\* cells.filter(...) with the page's cell filter; a missing filter passes all
filteredCellsEither(cells, cellFilter) ==
  IF cellFilter = None THEN cells
  ELSE LET f == Val(cellFilter)
           sampleMatch(cell) == Len(f.selectedSamples) = 0
                                  \/ Includes(f.selectedSamples, cell.sample)
           clusterMatch(cell) == Len(f.selectedClusters) = 0
                                  \/ Includes(f.selectedClusters, cell.cluster)
       IN  SelectSeq(cells, LAMBDA cell : sampleMatch(cell) \/ clusterMatch(cell))

filteredCells(cells, cellFilter) ==
  IF cellFilter = None THEN cells
  ELSE LET f == Val(cellFilter)
           sampleMatch(cell) == Len(f.selectedSamples) = 0
                                  \/ Includes(f.selectedSamples, cell.sample)
           clusterMatch(cell) == Len(f.selectedClusters) = 0
                                  \/ Includes(f.selectedClusters, cell.cluster)
       IN  SelectSeq(cells, LAMBDA cell : sampleMatch(cell) /\ clusterMatch(cell))

SetMin(S) == CHOOSE m \in S : \A e \in S : m <= e
SetMax(S) == CHOOSE m \in S : \A e \in S : m >= e

\* data bounds over all cells, padded by 10% of each axis range
bounds(cells) ==
  IF Len(cells) = 0
  THEN [minX |-> R(0 - 50), maxX |-> R(50), minY |-> R(0 - 50), maxY |-> R(50)]
  ELSE LET xs == {cells[i].x : i \in DOMAIN cells}
           ys == {cells[i].y : i \in DOMAIN cells}
           minX == R(SetMin(xs))
           maxX == R(SetMax(xs))
           minY == R(SetMin(ys))
           maxY == R(SetMax(ys))
           padding == Norm(1, 10)
           rangeX == RSub(maxX, minX)
           rangeY == RSub(maxY, minY)
       IN  [minX |-> RSub(minX, RMul(rangeX, padding)),
            maxX |-> RAdd(maxX, RMul(rangeX, padding)),
            minY |-> RSub(minY, RMul(rangeY, padding)),
            maxY |-> RAdd(maxY, RMul(rangeY, padding))]

CanvasPadding == 50

dataToCanvas(x, y, dims, bnds, tf) ==
  LET width == R(dims.width)
      height == R(dims.height)
      padding == R(CanvasPadding)
      plotWidth == RSub(width, RMul(padding, R(2)))
      plotHeight == RSub(height, RMul(padding, R(2)))
      scaleX == RDiv(plotWidth, RSub(bnds.maxX, bnds.minX))
      scaleY == RDiv(plotHeight, RSub(bnds.maxY, bnds.minY))
      canvasX == RAdd(padding, RMul(RSub(x, bnds.minX), scaleX))
      canvasY == RSub(RSub(height, padding), RMul(RSub(y, bnds.minY), scaleY))
  IN  [x |-> RAdd(RAdd(RMul(RSub(canvasX, RDiv(width, R(2))), tf.scale),
                       RDiv(width, R(2))), tf.x),
       y |-> RAdd(RAdd(RMul(RSub(canvasY, RDiv(height, R(2))), tf.scale),
                       RDiv(height, R(2))), tf.y)]

canvasToData(canvasX, canvasY, dims, bnds, tf) ==
  LET width == R(dims.width)
      height == R(dims.height)
      padding == R(CanvasPadding)
      plotWidth == RSub(width, RMul(padding, R(2)))
      plotHeight == RSub(height, RMul(padding, R(2)))
      scaleX == RDiv(plotWidth, RSub(bnds.maxX, bnds.minX))
      scaleY == RDiv(plotHeight, RSub(bnds.maxY, bnds.minY))
      untransformedX == RAdd(RDiv(RSub(RSub(canvasX, tf.x), RDiv(width, R(2))), tf.scale),
                             RDiv(width, R(2)))
      untransformedY == RAdd(RDiv(RSub(RSub(canvasY, tf.y), RDiv(height, R(2))), tf.scale),
                             RDiv(height, R(2)))
  IN  [x |-> RAdd(RDiv(RSub(untransformedX, padding), scaleX), bnds.minX),
       y |-> RSub(bnds.maxY, RDiv(RSub(untransformedY, padding), scaleY))]

\* ray casting over the polygon's edges (j, i) = (n, 1), (1, 2), ..., (n-1, n)
pointInPolygon(x, y, polygon) ==
  IF Len(polygon) < 3 THEN FALSE
  ELSE LET n == Len(polygon)
           Crosses(i) ==
             LET j == IF i = 1 THEN n ELSE i - 1
                 xi == polygon[i].x
                 yi == polygon[i].y
                 xj == polygon[j].x
                 yj == polygon[j].y
             IN  /\ RGt(yi, y) # RGt(yj, y)
                 /\ RLt(x, RAdd(RDiv(RMul(RSub(xj, xi), RSub(y, yi)), RSub(yj, yi)), xi))
       IN  Cardinality({i \in 1..n : Crosses(i)}) % 2 = 1

pointInRectExclusive(x, y, rect) ==
  LET minX == RMin(rect.x1, rect.x2)
      maxX == RMax(rect.x1, rect.x2)
      minY == RMin(rect.y1, rect.y2)
      maxY == RMax(rect.y1, rect.y2)
  IN  RGt(x, minX) /\ RLt(x, maxX) /\ RGt(y, minY) /\ RLt(y, maxY)

pointInRect(x, y, rect) ==
  LET minX == RMin(rect.x1, rect.x2)
      maxX == RMax(rect.x1, rect.x2)
      minY == RMin(rect.y1, rect.y2)
      maxY == RMax(rect.y1, rect.y2)
  IN  RGe(x, minX) /\ RLe(x, maxX) /\ RGe(y, minY) /\ RLe(y, maxY)

\* ------------------------------------------------------------------------
\* ScatterPlot: event handlers.  The hover branch of handleMouseMove only
\* feeds the tooltip (hoveredCell, mousePos), which no other state reads; it
\* is left out.  lastOp of a mouse-move records the cursor and, while the
\* moves follow a mouse-down in mode none without another event in between,
\* the cursor and the pan offset at that mouse-down.
\* ------------------------------------------------------------------------
\* where the canvas sits in the page: clientX = canvasX + left
CanvasOrigin == [left |-> R(16), top |-> R(120)]

ClientX(p) == RAdd(p.x, CanvasOrigin.left)
ClientY(p) == RAdd(p.y, CanvasOrigin.top)

Pt(x, y) == [x |-> x, y |-> y]

\* cursor positions on the canvas: the canvas images of the data points
\* (0,0), (10,10) and (100,100) of a 600 x 500 plot under the identity camera,
\* and a point off their line
MousePoints ==
  { Pt(Norm(275, 3), Norm(1250, 3)), Pt(Norm(400, 3), Norm(1150, 3)),
    Pt(Norm(1525, 3), Norm(250, 3)), Pt(R(200), R(100)) }

MinScale == Norm(1, 2)
MaxScale == R(10)

\* Math.max(0.5, Math.min(10, prev.scale * delta))
wheelScale(prev, delta) == RMax(MinScale, RMin(MaxScale, RMul(prev, delta)))

\* Math.min(10, prev.scale * 1.2)
zoomInScale(prev) == RMin(MaxScale, RMul(prev, Norm(6, 5)))

zoomOutScaleUnclamped(prev) == RDiv(prev, Norm(6, 5))

\* Math.max(0.5, prev.scale / 1.2)
zoomOutScale(prev) == RMax(MinScale, RDiv(prev, Norm(6, 5)))

handleWheel(cap) ==
  \E deltaYPositive \in BOOLEAN :
    /\ Handled(cap)
    /\ transform' = [transform EXCEPT !.scale =
                       wheelScale(@, IF deltaYPositive THEN Norm(9, 10) ELSE Norm(11, 10))]
    /\ lastOp' = [op |-> "Wheel"]
    /\ UNCHANGED <<pageVars, toolVars, uploaderVars, dimensions, isPanning, panStart, selectionVars,
                   helperVars>>

zoomInButton(cap) ==
  /\ Handled(cap)
  /\ transform' = [transform EXCEPT !.scale = zoomInScale(@)]
  /\ lastOp' = [op |-> "ZoomIn"]
  /\ UNCHANGED <<pageVars, toolVars, uploaderVars, dimensions, isPanning, panStart, selectionVars,
                 helperVars>>

zoomOutButton(cap) ==
  /\ Handled(cap)
  /\ transform' = [transform EXCEPT !.scale = zoomOutScale(@)]
  /\ lastOp' = [op |-> "ZoomOut"]
  /\ UNCHANGED <<pageVars, toolVars, uploaderVars, dimensions, isPanning, panStart, selectionVars,
                 helperVars>>

\* double click on the canvas, or the reset-view button
handleDoubleClick(cap) ==
  /\ Handled(cap)
  /\ transform' = [x |-> R(0), y |-> R(0), scale |-> R(1)]
  /\ lastOp' = [op |-> "ResetView"]
  /\ UNCHANGED <<pageVars, toolVars, uploaderVars, dimensions, isPanning, panStart, selectionVars,
                 helperVars>>

panOriginIgnoringPan(client, pan) == client

\* e.clientX - transform.x
panOrigin(client, pan) == RSub(client, pan)

handleMouseDown(cap) ==
  \E p \in MousePoints :
    /\ Handled(cap)
    /\ CASE selectionMode = "none" ->
              /\ isPanning' = TRUE
              /\ panStart' = [x |-> panOrigin(ClientX(p), transform.x),
                              y |-> panOrigin(ClientY(p), transform.y)]
              /\ UNCHANGED <<isSelecting, lassoPoints, rectSelection>>
         [] selectionMode = "lasso" ->
              /\ isSelecting' = TRUE
              /\ lassoPoints' = <<p>>
              /\ UNCHANGED <<isPanning, panStart, rectSelection>>
         [] selectionMode = "rectangle" ->
              /\ isSelecting' = TRUE
              /\ rectSelection' = Some([x1 |-> p.x, y1 |-> p.y, x2 |-> p.x, y2 |-> p.y])
              /\ UNCHANGED <<isPanning, panStart, lassoPoints>>
    /\ lastOp' = [op |-> "MouseDown", mode |-> selectionMode, at |-> p,
                  pan |-> Pt(transform.x, transform.y)]
    /\ UNCHANGED <<pageVars, toolVars, uploaderVars, dimensions, transform, selectionMode, selectedCells,
                   helperVars>>

handleMouseMove(cap) ==
  \E p \in MousePoints :
    /\ Handled(cap)
    /\ IF isPanning
       THEN /\ transform' = [transform EXCEPT !.x = RSub(ClientX(p), panStart.x),
                                              !.y = RSub(ClientY(p), panStart.y)]
            /\ UNCHANGED <<lassoPoints, rectSelection>>
       ELSE IF isSelecting /\ selectionMode = "lasso"
       THEN /\ lassoPoints' = Append(lassoPoints, p)
            /\ UNCHANGED <<transform, rectSelection>>
       ELSE IF isSelecting /\ selectionMode = "rectangle"
       THEN /\ rectSelection' = IF rectSelection # None
                                THEN Some([Val(rectSelection) EXCEPT !.x2 = p.x, !.y2 = p.y])
                                ELSE None
            /\ UNCHANGED <<transform, lassoPoints>>
       ELSE UNCHANGED <<transform, lassoPoints, rectSelection>>
    /\ lastOp' = [op |-> "MouseMove", at |-> p, wasPanning |-> isPanning,
                  down |-> IF lastOp.op = "MouseDown" /\ lastOp.mode = "none"
                           THEN Some([at |-> lastOp.at, pan |-> lastOp.pan])
                           ELSE IF lastOp.op = "MouseMove" THEN lastOp.down ELSE None]
    /\ UNCHANGED <<pageVars, toolVars, uploaderVars, dimensions, isPanning, panStart, selectionMode,
                   isSelecting, selectedCells, helperVars>>

\* a collection in which a lasso of fewer than 3 vertices catches every cell
newSelectedCellsShortLassoCatchesAll(filtered, dims, bnds, tf, mode, lasso, rect) ==
  LET pos(cell) == dataToCanvas(R(cell.x), R(cell.y), dims, bnds, tf)
      hit(cell) ==
        IF mode = "lasso"
        THEN Len(lasso) > 2 => pointInPolygon(pos(cell).x, pos(cell).y, lasso)
        ELSE IF mode = "rectangle" /\ rect # None
        THEN pointInRect(pos(cell).x, pos(cell).y, Val(rect))
        ELSE FALSE
  IN  {filtered[i].id : i \in {k \in DOMAIN filtered : hit(filtered[k])}}

\* the ids handleMouseUp collects from the filtered cells
newSelectedCells(filtered, dims, bnds, tf, mode, lasso, rect) ==
  LET pos(cell) == dataToCanvas(R(cell.x), R(cell.y), dims, bnds, tf)
      hit(cell) ==
        IF mode = "lasso" /\ Len(lasso) > 2
        THEN pointInPolygon(pos(cell).x, pos(cell).y, lasso)
        ELSE IF mode = "rectangle" /\ rect # None
        THEN pointInRect(pos(cell).x, pos(cell).y, Val(rect))
        ELSE FALSE
  IN  {filtered[i].id : i \in {k \in DOMAIN filtered : hit(filtered[k])}}

\* a mouse-up that commits and ends the gesture and keeps the lasso points
\* and the rectangle it drew
handleMouseUpKeepingDraft(event, cap) ==
  LET filtered == filteredCells(dataset.cells, Some(settings.cellFilter))
      selected == newSelectedCells(filtered, dimensions, bounds(dataset.cells), transform,
                                   selectionMode, lassoPoints, rectSelection)
  IN  /\ Handled(cap)
      /\ IF isSelecting
         THEN /\ selectedCells' = selected
              /\ pageSelectedCells' = SelectSeq(filtered, LAMBDA c : c.id \in selected)
         ELSE UNCHANGED <<selectedCells, pageSelectedCells>>
      /\ isPanning' = FALSE
      /\ isSelecting' = FALSE
      /\ lastOp' = [op |-> event, committed |-> isSelecting, mode |-> selectionMode,
                    lasso |-> lassoPoints, rect |-> rectSelection,
                    wasPanning |-> isPanning, preSelected |-> selectedCells]
      /\ UNCHANGED <<dataset, originalDataset, settings, toolVars, uploaderVars, dimensions, transform,
                     panStart, selectionMode, lassoPoints, rectSelection, helperVars>>

\* handleMouseUp, run by onMouseUp and by onMouseLeave
handleMouseUp(event, cap) ==
  LET filtered == filteredCells(dataset.cells, Some(settings.cellFilter))
      selected == newSelectedCells(filtered, dimensions, bounds(dataset.cells), transform,
                                   selectionMode, lassoPoints, rectSelection)
  IN  /\ Handled(cap)
      /\ IF isSelecting
         THEN /\ selectedCells' = selected
              /\ pageSelectedCells' = SelectSeq(filtered, LAMBDA c : c.id \in selected)
         ELSE UNCHANGED <<selectedCells, pageSelectedCells>>
      /\ isPanning' = FALSE
      /\ isSelecting' = FALSE
      /\ lassoPoints' = << >>
      /\ rectSelection' = None
      /\ lastOp' = [op |-> event, committed |-> isSelecting, mode |-> selectionMode,
                    lasso |-> lassoPoints, rect |-> rectSelection,
                    wasPanning |-> isPanning, preSelected |-> selectedCells]
      /\ UNCHANGED <<dataset, originalDataset, settings, toolVars, uploaderVars, dimensions, transform,
                     panStart, selectionMode, helperVars>>

onMouseUp(cap) == handleMouseUp("MouseUp", cap)

onMouseLeave(cap) == handleMouseUp("MouseLeave", cap)

\* SelectionTools: the three mode buttons call setSelectionMode
SelectionModes == {"none", "lasso", "rectangle"}

onModeChange(cap) ==
  \E mode \in SelectionModes :
    /\ Handled(cap)
    /\ selectionMode' = mode
    /\ lastOp' = [op |-> "ModeChange", from |-> selectionMode, preSelected |-> selectedCells,
                  wasSelecting |-> isSelecting]
    /\ UNCHANGED <<pageVars, toolVars, uploaderVars, cameraVars, isSelecting, lassoPoints, rectSelection,
                   selectedCells, helperVars>>

\* the clear button is shown while selectedCount > 0
handleClearSelection(cap) ==
  /\ Handled(cap)
  /\ Cardinality(selectedCells) > 0
  /\ selectedCells' = {}
  /\ pageSelectedCells' = << >>
  /\ lastOp' = [op |-> "ClearSelection"]
  /\ UNCHANGED <<dataset, originalDataset, settings, toolVars, uploaderVars, cameraVars, selectionMode,
                 isSelecting, lassoPoints, rectSelection, helperVars>>

\* ------------------------------------------------------------------------
\* ScatterPlot on its own: the page hands it a dataset and a cell filter
\* ------------------------------------------------------------------------
MaxScatterEvents == 6

\* the three uploaded cells unfiltered, or the demo cells of Sample_2
ScatterInputs ==
  { [dataset |-> UploadThree, cellFilter |-> defaultCellFilter],
    [dataset |-> generateDemoDataset,
     cellFilter |-> [selectedSamples |-> <<"Sample_2">>, selectedClusters |-> << >>]] }

InitScatter ==
  /\ \E in \in ScatterInputs :
       /\ dataset = in.dataset
       /\ originalDataset = in.dataset
       /\ settings = [defaultSettings EXCEPT !.cellFilter = in.cellFilter]
  /\ pageSelectedCells = << >>
  /\ InitTool
  /\ InitUploader
  /\ InitScatterPlot
  /\ InitBookkeeping

NextScatter ==
  \/ handleWheel(MaxScatterEvents)
  \/ handleDoubleClick(MaxScatterEvents)
  \/ handleMouseDown(MaxScatterEvents)
  \/ handleMouseMove(MaxScatterEvents)
  \/ onMouseUp(MaxScatterEvents)
  \/ onMouseLeave(MaxScatterEvents)
  \/ onModeChange(MaxScatterEvents)
  \/ handleClearSelection(MaxScatterEvents)

SpecScatter == InitScatter /\ [][NextScatter]_vars

\* ------------------------------------------------------------------------
\* The camera: wheel, zoom buttons, view reset and pan drags.  Thirteen
\* zoom-in clicks take the scale from 1 to the upper clamp; the start states
\* include the scale already at that clamp so that few steps reach it.
\* ------------------------------------------------------------------------
MaxCameraEvents == 6

CameraStartScales == {R(1), MaxScale}

InitCamera ==
  /\ InitPage
  /\ InitTool
  /\ InitUploader
  /\ dimensions = [width |-> 600, height |-> 500]
  /\ \E s \in CameraStartScales : transform = [x |-> R(0), y |-> R(0), scale |-> s]
  /\ isPanning = FALSE
  /\ panStart = [x |-> R(0), y |-> R(0)]
  /\ selectionMode = "none"
  /\ isSelecting = FALSE
  /\ lassoPoints = << >>
  /\ rectSelection = None
  /\ selectedCells = {}
  /\ InitBookkeeping

NextCamera ==
  \/ handleWheel(MaxCameraEvents)
  \/ zoomInButton(MaxCameraEvents)
  \/ zoomOutButton(MaxCameraEvents)
  \/ handleDoubleClick(MaxCameraEvents)
  \/ handleMouseDown(MaxCameraEvents)
  \/ handleMouseMove(MaxCameraEvents)
  \/ onMouseUp(MaxCameraEvents)

SpecCamera == InitCamera /\ [][NextCamera]_vars

\* ------------------------------------------------------------------------
\* dataToCanvas followed by canvasToData, applied once to a data point in a
\* plot that has been resized, panned and zoomed
\* ------------------------------------------------------------------------
RoundTripDatasets == {generateDemoDataset, UploadThree, UploadSingle}

\* the resize observer keeps both sides at 300 or more
RoundTripDimensions ==
  { [width |-> 600, height |-> 500], [width |-> 300, height |-> 300],
    [width |-> 1024, height |-> 768] }

RoundTripCameras ==
  { [x |-> x, y |-> y, scale |-> s] :
      x \in {R(0), Norm(125, 3)}, y \in {R(0), Norm(-100, 3)},
      s \in {MinScale, R(1), Norm(11, 10), MaxScale} }

DataCoordinates == {-5, 0, 5, 10, 100}

InitRoundTrip ==
  /\ \E d \in RoundTripDatasets : dataset = d /\ originalDataset = d
  /\ settings = defaultSettings
  /\ pageSelectedCells = << >>
  /\ InitTool
  /\ InitUploader
  /\ dimensions \in RoundTripDimensions
  /\ transform \in RoundTripCameras
  /\ isPanning = FALSE
  /\ panStart = [x |-> R(0), y |-> R(0)]
  /\ selectionMode = "none"
  /\ isSelecting = FALSE
  /\ lassoPoints = << >>
  /\ rectSelection = None
  /\ selectedCells = {}
  /\ InitBookkeeping

RoundTrip ==
  \E x \in DataCoordinates, y \in DataCoordinates :
    LET bnds == bounds(dataset.cells)
        canvas == dataToCanvas(R(x), R(y), dimensions, bnds, transform)
    IN  /\ arg = None
        /\ arg' = Some([x |-> R(x), y |-> R(y)])
        /\ res' = Some([canvas |-> canvas,
                        data |-> canvasToData(canvas.x, canvas.y, dimensions, bnds, transform)])
        /\ lastOp' = [op |-> "RoundTrip"]
        /\ UNCHANGED <<pageVars, toolVars, uploaderVars, cameraVars, selectionVars, counterVars>>

NextRoundTrip == RoundTrip

SpecRoundTrip == InitRoundTrip /\ [][NextRoundTrip]_vars

\* ------------------------------------------------------------------------
\* CellFilter: the filter controls, and the filtered cells the plot and the
\* filter panel derive from the page's cells and filter
\* ------------------------------------------------------------------------
\* the samples offered: the distinct sample names of the cells
samples(cells) == {cells[i].sample : i \in DOMAIN cells}

filteredCount(cells, filter) ==
  LET sampleMatch(cell) == Len(filter.selectedSamples) = 0
                             \/ Includes(filter.selectedSamples, cell.sample)
      clusterMatch(cell) == Len(filter.selectedClusters) = 0
                              \/ Includes(filter.selectedClusters, cell.cluster)
  IN  Len(SelectSeq(cells, LAMBDA cell : sampleMatch(cell) /\ clusterMatch(cell)))

onFilterChange(filter, op) ==
  /\ settings' = handleSettingsChange(settings, [cellFilter |-> filter])
  /\ lastOp' = [op |-> op]
  /\ UNCHANGED <<dataset, originalDataset, pageSelectedCells, toolVars, uploaderVars, cameraVars,
                 selectionVars, counterVars, helperVars>>

handleSampleAdd ==
  \E sample \in samples(dataset.cells) :
    /\ ~Includes(settings.cellFilter.selectedSamples, sample)
    /\ onFilterChange([settings.cellFilter EXCEPT !.selectedSamples = Append(@, sample)],
                      "SampleAdd")

handleSampleRemove ==
  \E sample \in Range(settings.cellFilter.selectedSamples) :
    onFilterChange([settings.cellFilter EXCEPT
                      !.selectedSamples = SelectSeq(@, LAMBDA s : s # sample)],
                   "SampleRemove")

handleClusterAdd ==
  \E clusterId \in ClusterIds(dataset) :
    /\ ~Includes(settings.cellFilter.selectedClusters, clusterId)
    /\ onFilterChange([settings.cellFilter EXCEPT !.selectedClusters = Append(@, clusterId)],
                      "ClusterAdd")

handleClusterRemove ==
  \E clusterId \in Range(settings.cellFilter.selectedClusters) :
    onFilterChange([settings.cellFilter EXCEPT
                      !.selectedClusters = SelectSeq(@, LAMBDA c : c # clusterId)],
                   "ClusterRemove")

\* "Clear all" is shown while a sample or a cluster is selected
handleClearAll ==
  /\ Len(settings.cellFilter.selectedSamples) > 0 \/ Len(settings.cellFilter.selectedClusters) > 0
  /\ onFilterChange(defaultCellFilter, "ClearAll")

\* a render: the plot derives its filtered cells and the panel its count
renderFiltered ==
  /\ arg' = Some([cells |-> dataset.cells, cellFilter |-> settings.cellFilter])
  /\ res' = Some([cells |-> filteredCells(dataset.cells, Some(settings.cellFilter)),
                  count |-> filteredCount(dataset.cells, settings.cellFilter)])
  /\ lastOp' = [op |-> "Filter"]
  /\ UNCHANGED <<pageVars, toolVars, uploaderVars, cameraVars, selectionVars, counterVars>>

NextFilter ==
  \/ DatasetLoad
  \/ handleSampleAdd
  \/ handleSampleRemove
  \/ handleClusterAdd
  \/ handleClusterRemove
  \/ handleClearAll
  \/ renderFiltered

SpecFilter == Init /\ [][NextFilter]_vars

\* ------------------------------------------------------------------------
\* ScatterPlot: expression bounds of the values of an expression map
\* ------------------------------------------------------------------------
\* [...values].sort((a, b) => a - b): position k (from 1) holds the value
\* that has fewer than k values below it and at least k values not above it
SortAscending(values) ==
  [k \in 1..Len(values) |->
     CHOOSE v \in Range(values) :
       /\ Cardinality({i \in DOMAIN values : values[i] < v}) < k
       /\ k <= Cardinality({i \in DOMAIN values : values[i] <= v})]

lowIdxCeil(percentileLow, length) == Ceil(RMul(Norm(percentileLow, 100), R(length - 1)))

\* Math.floor((percentileLow / 100) * (sorted.length - 1))
lowIdx(percentileLow, length) == Floor(RMul(Norm(percentileLow, 100), R(length - 1)))

\* Math.ceil((percentileHigh / 100) * (sorted.length - 1))
highIdx(percentileHigh, length) == Ceil(RMul(Norm(percentileHigh, 100), R(length - 1)))

ClipMinValues == 10

\* values are the values of the expression map, in the map's order; an empty
\* or missing map gives {0, 1}.  JavaScript arrays are indexed from 0.
expressionBounds(values, usePercentileClipping, percentileLow, percentileHigh) ==
  IF Len(values) = 0 THEN [min |-> 0, max |-> 1]
  ELSE IF usePercentileClipping /\ Len(values) > ClipMinValues
  THEN LET sorted == SortAscending(values)
       IN  [min |-> sorted[lowIdx(percentileLow, Len(sorted)) + 1],
            max |-> sorted[highIdx(percentileHigh, Len(sorted)) + 1]]
  ELSE [min |-> SetMin(Range(values)), max |-> SetMax(Range(values))]

\* expression maps handed to the plot: the values 0..99 in rising and in
\* falling order, twelve values with a repeat, ten values, one value, none
ExpressionValueLists ==
  { [i \in 1..100 |-> i - 1], [i \in 1..100 |-> 100 - i],
    <<7, 3, 9, 1, 12, 5, 3, 8, 20, 2, 4, 6>>,
    <<5, 1, 9, 3, 7, 2, 8, 4, 6, 10>>, <<4>>, << >> }

InitBounds ==
  /\ dataset = generateDemoDataset
  /\ originalDataset = generateDemoDataset
  /\ \E low \in PercentileValues, high \in PercentileValues, clip \in BOOLEAN :
       /\ percentileAccepts(low, high)
       /\ settings = [defaultSettings EXCEPT !.percentileLow = low, !.percentileHigh = high,
                                             !.usePercentileClipping = clip,
                                             !.selectedGene = "A"]
  /\ pageSelectedCells = << >>
  /\ InitTool
  /\ InitUploader
  /\ InitScatterPlot
  /\ events = 0
  /\ lastOp = NoOp
  /\ arg = None
  /\ res = None

renderExpressionBounds ==
  \E values \in ExpressionValueLists :
    /\ arg = None
    /\ arg' = Some(values)
    /\ res' = Some(expressionBounds(values, settings.usePercentileClipping,
                                    settings.percentileLow, settings.percentileHigh))
    /\ lastOp' = [op |-> "ExpressionBounds"]
    /\ UNCHANGED <<pageVars, toolVars, uploaderVars, cameraVars, selectionVars, counterVars>>

NextBounds == renderExpressionBounds

SpecBounds == InitBounds /\ [][NextBounds]_vars

\* ------------------------------------------------------------------------
\* Expression data: the uploaded expression maps, the generated fallback,
\* and the average over several genes.  An expression map is a function
\* from cell ids to numbers.
\* ------------------------------------------------------------------------
\* MARKER_GENES, cut down to the one marker gene of the model
MarkerCluster(gene) == IF gene = "MYH7" THEN 0 ELSE -1

\* outcomes of the random draws of one call: a low and a high one
RandomLevels == {"low", "high"}

\* value = Math.max(0, ...) of a draw in [2, 4.5) for a marker gene in its
\* cluster, in [0, 0.8) in other clusters, around 1 for any other gene
getGeneExpression(cells, gene, level) ==
  LET markerCluster == MarkerCluster(gene)
      value(cell) ==
        IF markerCluster >= 0 /\ cell.cluster = markerCluster
        THEN (IF level = "low" THEN R(2) ELSE R(4))
        ELSE IF markerCluster >= 0
        THEN (IF level = "low" THEN R(0) ELSE Norm(3, 4))
        ELSE RMax(R(0), RAdd(R(1), IF level = "low" THEN Norm(-3, 2) ELSE Norm(1, 2)))
  IN  [id \in {cells[i].id : i \in DOMAIN cells} |->
         value(cells[CHOOSE i \in DOMAIN cells :
                       /\ cells[i].id = id
                       /\ \A j \in DOMAIN cells : cells[j].id = id => j <= i])]

getExpressionData(ds, gene, level) ==
  IF gene \in DOMAIN ds.expression
  THEN [id \in DOMAIN ds.expression[gene] |-> R(ds.expression[gene][id])]
  ELSE getGeneExpression(ds.cells, gene, level)

RECURSIVE SumOver(_, _, _)
SumOver(geneMaps, cellId, n) ==
  IF n = 0 THEN [sum |-> R(0), count |-> 0]
  ELSE LET acc == SumOver(geneMaps, cellId, n - 1)
       IN  IF cellId \in DOMAIN geneMaps[n]
           THEN [sum |-> RAdd(acc.sum, geneMaps[n][cellId]), count |-> acc.count + 1]
           ELSE acc

averageOverAll(geneMaps, cellId) ==
  RDiv(SumOver(geneMaps, cellId, Len(geneMaps)).sum, R(Len(geneMaps)))

\* count > 0 ? sum / count : 0
averageOf(geneMaps, cellId) ==
  LET acc == SumOver(geneMaps, cellId, Len(geneMaps))
  IN  IF acc.count > 0 THEN RDiv(acc.sum, R(acc.count)) ELSE R(0)

\* levels[i] is the outcome of the draws of the i-th call of getExpressionData
geneMapsOf(ds, genes, levels) ==
  [i \in DOMAIN genes |-> getExpressionData(ds, genes[i], levels[i])]

getAveragedExpression(ds, genes, levels) ==
  IF Len(genes) = 0 THEN << >>
  ELSE LET geneMaps == geneMapsOf(ds, genes, levels)
           cellIds == UNION {DOMAIN geneMaps[i] : i \in DOMAIN geneMaps}
       IN  [cellId \in cellIds |-> averageOf(geneMaps, cellId)]

MaxGenes == 2

\* the gene lists a user can have selected
GeneLists == UNION {[1..n -> GeneNames] : n \in 0..MaxGenes}

AveragedDatasets == {generateDemoDataset, UploadThree, UploadSingle}

InitAveraged ==
  /\ \E d \in AveragedDatasets : dataset = d /\ originalDataset = d
  /\ \E genes \in GeneLists : settings = [defaultSettings EXCEPT !.selectedGenes = genes]
  /\ pageSelectedCells = << >>
  /\ InitTool
  /\ InitUploader
  /\ InitScatterPlot
  /\ InitBookkeeping

\* Index computes expressionData for the selected genes
renderAveragedExpression ==
  \E levels \in [DOMAIN settings.selectedGenes -> RandomLevels] :
    /\ arg = None
    /\ arg' = Some(settings.selectedGenes)
    /\ res' = Some(getAveragedExpression(dataset, settings.selectedGenes, levels))
    /\ lastOp' = [op |-> "Averaged",
                  geneMaps |-> geneMapsOf(dataset, settings.selectedGenes, levels)]
    /\ UNCHANGED <<pageVars, toolVars, uploaderVars, cameraVars, selectionVars, counterVars>>

NextAveraged == renderAveragedExpression

SpecAveraged == InitAveraged /\ [][NextAveraged]_vars

\* ------------------------------------------------------------------------
\* colorPalettes: the stop tables, interpolateStops and expressionToColor.
\* A stop is <<position, r, g, b>>; positions are tenths, quarters or fifths.
\* ------------------------------------------------------------------------
Stops(step, colors) ==
  [i \in DOMAIN colors |-> <<Norm((i - 1) * step[1], step[2]), colors[i][1], colors[i][2], colors[i][3]>>]

VIRIDIS_STOPS ==
  Stops(<<1, 10>>, << <<68, 1, 84>>, <<72, 36, 117>>, <<65, 68, 135>>, <<53, 95, 141>>,
                      <<42, 120, 142>>, <<33, 145, 140>>, <<34, 168, 132>>, <<68, 191, 112>>,
                      <<122, 209, 81>>, <<189, 223, 38>>, <<253, 231, 37>> >>)

MAGMA_STOPS ==
  Stops(<<1, 10>>, << <<0, 0, 4>>, <<28, 16, 68>>, <<79, 18, 123>>, <<129, 37, 129>>,
                      <<181, 54, 122>>, <<229, 80, 100>>, <<251, 135, 97>>, <<254, 176, 120>>,
                      <<254, 209, 154>>, <<254, 235, 195>>, <<252, 253, 191>> >>)

PLASMA_STOPS ==
  Stops(<<1, 10>>, << <<13, 8, 135>>, <<75, 3, 161>>, <<125, 3, 168>>, <<168, 34, 150>>,
                      <<203, 70, 121>>, <<229, 107, 93>>, <<248, 148, 65>>, <<253, 187, 45>>,
                      <<245, 224, 32>>, <<225, 248, 56>>, <<240, 249, 33>> >>)

INFERNO_STOPS ==
  Stops(<<1, 10>>, << <<0, 0, 4>>, <<22, 11, 57>>, <<66, 10, 104>>, <<106, 23, 110>>,
                      <<147, 38, 103>>, <<188, 55, 84>>, <<221, 81, 58>>, <<243, 120, 25>>,
                      <<252, 165, 10>>, <<246, 215, 70>>, <<252, 255, 164>> >>)

GRRD_STOPS ==
  Stops(<<1, 4>>, << <<180, 180, 180>>, <<210, 210, 210>>, <<255, 255, 255>>,
                     <<255, 140, 120>>, <<255, 75, 55>> >>)

BLUES_STOPS ==
  Stops(<<1, 5>>, << <<247, 251, 255>>, <<198, 219, 239>>, <<158, 202, 225>>,
                     <<107, 174, 214>>, <<49, 130, 189>>, <<8, 81, 156>> >>)

Palettes == {"viridis", "magma", "plasma", "inferno", "grrd", "blues"}

PALETTE_MAP(palette) ==
  CASE palette = "viridis" -> VIRIDIS_STOPS
    [] palette = "magma" -> MAGMA_STOPS
    [] palette = "plasma" -> PLASMA_STOPS
    [] palette = "inferno" -> INFERNO_STOPS
    [] palette = "grrd" -> GRRD_STOPS
    [] palette = "blues" -> BLUES_STOPS

\* the color of the stop at or below t, without blending towards the next
interpolateStopsNoBlend(stops, t) ==
  LET i == CHOOSE k \in 1..Len(stops) :
             /\ RLe(stops[k][1], t) \/ k = 1
             /\ \A j \in 1..Len(stops) : (RLe(stops[j][1], t) \/ j = 1) => j <= k
  IN  <<stops[i][2], stops[i][3], stops[i][4]>>

interpolateStops(stops, t) ==
  LET last == stops[Len(stops)]
      between == {i \in 1..(Len(stops) - 1) : RGe(t, stops[i][1]) /\ RLe(t, stops[i + 1][1])}
  IN  IF RLe(t, R(0)) THEN <<stops[1][2], stops[1][3], stops[1][4]>>
      ELSE IF RGe(t, R(1)) THEN <<last[2], last[3], last[4]>>
      ELSE IF between # {}
      THEN LET i == SetMin(between)
               local == RDiv(RSub(t, stops[i][1]), RSub(stops[i + 1][1], stops[i][1]))
               channel(k) == Round(RAdd(R(stops[i][k]),
                                        RMul(R(stops[i + 1][k] - stops[i][k]), local)))
           IN  <<channel(2), channel(3), channel(4)>>
      ELSE <<last[2], last[3], last[4]>>

\* Math.pow(base, exponent) where the result is a rational or NaN: exponent
\* 1, or base 0 or 1 with a positive exponent, or a negative base with a
\* finite exponent that is not an integer
Pow(base, exponent) ==
  CASE exponent = R(1) -> base
    [] exponent # R(1) /\ base = R(0) /\ RGt(exponent, R(0)) -> R(0)
    [] exponent # R(1) /\ base = R(1) -> R(1)
    [] exponent # R(1) /\ RLt(base, R(0)) /\ IsFinite(base) /\ exponent[2] > 1 -> NaN

expressionToColor(value, min, max, scale, palette) ==
  LET raw == IF REq(max, min) THEN Norm(1, 2) ELSE RDiv(RSub(value, min), RSub(max, min))
      clamped == RMax(R(0), RMin(R(1), raw))
      normalized == Pow(clamped, RDiv(R(1), scale))
      rgb == interpolateStops(PALETTE_MAP(palette), normalized)
  IN  <<rgb[1], rgb[2], rgb[3], 255>>

\* expression ranges, and for each the values colored: every integer from
\* just below to just above [0, 100]; neighbours around the middle and the
\* ends of [0, 1000]
ColorRanges ==
  { [min |-> 0, max |-> 100, values |-> (0 - 2)..102],
    [min |-> 0, max |-> 1000, values |-> {0 - 7, 0 - 3, 0, 1, 499, 500, 501, 510, 999, 1000, 1001, 1005}] }

InitColor ==
  /\ InitPage
  /\ InitTool
  /\ InitUploader
  /\ InitScatterPlot
  /\ events = 0
  /\ lastOp = NoOp
  /\ \E range \in ColorRanges, palette \in Palettes :
       arg = Some([min |-> range.min, max |-> range.max, values |-> range.values,
                   palette |-> palette, v1 |-> range.min, v2 |-> range.max])
  /\ res = None

\* two values are colored with the same bounds, scale 1 and palette
colorTwoValues ==
  \E v1 \in Val(arg).values, v2 \in Val(arg).values :
    /\ res = None
    /\ v1 < v2
    /\ arg' = Some([Val(arg) EXCEPT !.v1 = v1, !.v2 = v2])
    /\ res' = Some(<<expressionToColor(R(v1), R(Val(arg).min), R(Val(arg).max), R(1), Val(arg).palette),
                     expressionToColor(R(v2), R(Val(arg).min), R(Val(arg).max), R(1), Val(arg).palette)>>)
    /\ lastOp' = [op |-> "Color"]
    /\ UNCHANGED <<pageVars, toolVars, uploaderVars, cameraVars, selectionVars, counterVars>>

NextColor == colorTwoValues

SpecColor == InitColor /\ [][NextColor]_vars

\* ------------------------------------------------------------------------
\* DatasetUploader: parsed JSON values, validateDataset and normalizeDataset
\* ------------------------------------------------------------------------
\* a parsed JSON value, tagged with its kind; an object's v is a record
JUndefined == [t |-> "undefined"]
JNull == [t |-> "null"]
JNum(n) == [t |-> "number", v |-> n]
JStr(s) == [t |-> "string", v |-> s]
JArr(elements) == [t |-> "array", v |-> elements]
JObj(fields) == [t |-> "object", v |-> fields]

\* typeof value
typeof(j) == IF j.t \in {"object", "array", "null"} THEN "object" ELSE j.t

\* !!value
Truthy(j) ==
  CASE j.t \in {"undefined", "null"} -> FALSE
    [] j.t = "number" -> j.v # 0
    [] j.t = "string" -> j.v # ""
    [] OTHER -> TRUE

\* value.key of a value that is neither null nor undefined
Prop(j, key) == IF j.t = "object" /\ key \in DOMAIN j.v THEN j.v[key] ELSE JUndefined

\* first.x throws a TypeError when cells[0] is null
validateThrows(data) ==
  /\ Truthy(data) /\ typeof(data) = "object"
  /\ Prop(data, "cells").t = "array"
  /\ Len(Prop(data, "cells").v) > 0
  /\ Prop(data, "cells").v[1].t = "null"

clusterErrorsNone(data) == << >>

clusterErrors(data) ==
  IF ~Truthy(Prop(data, "clusters")) \/ Prop(data, "clusters").t # "array"
  THEN <<"Missing or invalid 'clusters' array">>
  ELSE << >>

validateDataset(data) ==
  IF ~Truthy(data) \/ typeof(data) # "object"
  THEN [valid |-> FALSE, errors |-> <<"Invalid JSON structure">>, warnings |-> << >>]
  ELSE LET cells == Prop(data, "cells")
           hasCells == Truthy(cells) /\ cells.t = "array"
           cellErrors ==
             IF ~hasCells
             THEN <<"Missing or invalid 'cells' array">>
             ELSE IF Len(cells.v) = 0
             THEN <<"'cells' array is empty">>
             ELSE LET first == cells.v[1]
                  IN  (IF typeof(Prop(first, "x")) # "number"
                          \/ typeof(Prop(first, "y")) # "number"
                       THEN <<"Cells must have numeric 'x' and 'y' coordinates">>
                       ELSE << >>)
                      \o (IF typeof(Prop(first, "cluster")) # "number"
                          THEN <<"Cells must have numeric 'cluster' field">>
                          ELSE << >>)
           idWarnings ==
             IF hasCells /\ Len(cells.v) > 0 /\ typeof(Prop(cells.v[1], "id")) # "string"
             THEN <<"Cells should have string 'id' field (will be auto-generated)">>
             ELSE << >>
           geneWarnings ==
             IF ~Truthy(Prop(data, "genes")) \/ Prop(data, "genes").t # "array"
             THEN <<"Missing 'genes' array - gene search will be limited">>
             ELSE << >>
           metadataWarnings ==
             IF ~Truthy(Prop(data, "metadata")) \/ typeof(Prop(data, "metadata")) # "object"
             THEN <<"Missing 'metadata' - default values will be used">>
             ELSE << >>
           errors == cellErrors \o clusterErrors(data)
       IN  [valid |-> Len(errors) = 0, errors |-> errors,
            warnings |-> idWarnings \o geneWarnings \o metadataWarnings]

\* Number(value) of the values the uploads hold: numbers are kept, null is 0
ToNumber(j) ==
  CASE j.t = "number" -> j.v
    [] j.t = "null" -> 0
    [] OTHER -> NaN

\* cell.metadata[key] where it is a string, Null where the cell has none
MetadataString(cell, key) ==
  LET value == Prop(Prop(cell, "metadata"), key)
  IN  IF value.t = "string" THEN value.v ELSE Null

normalizeDataset(data) ==
  LET rawCells == IF Truthy(Prop(data, "cells")) THEN Prop(data, "cells").v ELSE << >>
      cells == [i \in DOMAIN rawCells |->
                  Cell(IF Truthy(Prop(rawCells[i], "id"))
                       THEN Prop(rawCells[i], "id").v
                       ELSE "cell_" \o ToString(i - 1),
                       ToNumber(Prop(rawCells[i], "x")),
                       ToNumber(Prop(rawCells[i], "y")),
                       ToNumber(Prop(rawCells[i], "cluster")),
                       MetadataString(rawCells[i], "sample"),
                       MetadataString(rawCells[i], "cell_type"))]
      rawClusters == IF Truthy(Prop(data, "clusters")) THEN Prop(data, "clusters").v ELSE << >>
      clusters == [i \in DOMAIN rawClusters |->
                     ClusterInfo(
                       IF Prop(rawClusters[i], "id").t \in {"undefined", "null"}
                       THEN i - 1 ELSE ToNumber(Prop(rawClusters[i], "id")),
                       IF Truthy(Prop(rawClusters[i], "name"))
                       THEN Prop(rawClusters[i], "name").v
                       ELSE "Cluster " \o ToString(i - 1),
                       IF Truthy(Prop(rawClusters[i], "cellCount"))
                       THEN ToNumber(Prop(rawClusters[i], "cellCount"))
                       ELSE CountInCluster(cells, i - 1),
                       IF Truthy(Prop(rawClusters[i], "color"))
                       THEN Prop(rawClusters[i], "color").v
                       ELSE "hsl(" \o ToString(((i - 1) * 36) % 360) \o ", 70%, 50%)")]
      rawExpression == Prop(data, "expression")
      expression == IF Truthy(rawExpression)
                    THEN [g \in DOMAIN rawExpression.v |->
                            [c \in DOMAIN rawExpression.v[g].v |-> rawExpression.v[g].v[c].v]]
                    ELSE << >>
  IN  [cells |-> cells, clusters |-> clusters, clusterCount |-> Len(clusters),
       expression |-> expression]

\* ------------------------------------------------------------------------
\* DatasetUploader: the files a user drops, and the handlers.  A file is its
\* name (stem and extension) and what JSON.parse makes of its text.
\* ------------------------------------------------------------------------
Malformed == [t |-> "malformed"]

File(stem, extension, content) == [stem |-> stem, extension |-> extension, content |-> content]

RawCell(id, x, y, cluster, sample, cellType) ==
  JObj([id |-> JStr(id), x |-> JNum(x), y |-> JNum(y), cluster |-> JNum(cluster),
        metadata |-> JObj([sample |-> JStr(sample), cell_type |-> JStr(cellType)])])

RawCluster(id, name, cellCount, color) ==
  JObj([id |-> JNum(id), name |-> JStr(name), cellCount |-> JNum(cellCount),
        color |-> JStr(color)])

RawThree ==
  JObj([cells |-> JArr(<< RawCell("u1", 0, 0, 0, "Sample_1", "Alpha"),
                          RawCell("u2", 10, 10, 0, "Sample_2", "Alpha"),
                          RawCell("u3", 100, 100, 1, "Sample_2", "Beta") >>),
        clusters |-> JArr(<< RawCluster(0, "Alpha", 2, "red"),
                             RawCluster(1, "Beta", 1, "blue") >>),
        genes |-> JArr(<<JStr("A"), JStr("B")>>),
        metadata |-> JObj([name |-> JStr("Three cells")]),
        expression |-> JObj([A |-> JObj([u1 |-> JNum(2), u2 |-> JNum(4)]),
                             B |-> JObj([u2 |-> JNum(6)])])])

\* no genes and no metadata: two warnings
RawSingle ==
  JObj([cells |-> JArr(<< RawCell("s1", 5, 5, 0, "Sample_1", "Solo") >>),
        clusters |-> JArr(<< RawCluster(0, "Solo", 1, "green") >>)])

\* clusters with ids 1 and 2 that carry no cellCount and no color
RawCounted ==
  JObj([cells |-> JArr(<< RawCell("m1", 0, 0, 1, "Sample_1", "One"),
                          RawCell("m2", 10, 10, 2, "Sample_1", "Two"),
                          RawCell("m3", 100, 100, 2, "Sample_2", "Two") >>),
        clusters |-> JArr(<< JObj([id |-> JNum(1), name |-> JStr("One")]),
                             JObj([id |-> JNum(2), name |-> JStr("Two")]) >>),
        genes |-> JArr(<< >>)])

\* the second cell names a cluster the cluster list does not hold
RawOrphan ==
  JObj([cells |-> JArr(<< RawCell("o1", 0, 0, 0, "Sample_1", "Alpha"),
                          RawCell("o2", 10, 10, 7, "Sample_1", "Other") >>),
        clusters |-> JArr(<< RawCluster(0, "Alpha", 1, "red") >>),
        genes |-> JArr(<< >>),
        metadata |-> JObj([name |-> JStr("Orphan")])])

RawEmptyCells ==
  JObj([cells |-> JArr(<< >>), clusters |-> JArr(<< RawCluster(0, "Alpha", 0, "red") >>)])

RawNoCells == JObj([clusters |-> JArr(<< RawCluster(0, "Alpha", 0, "red") >>)])

RawNoClusters == JObj([cells |-> JArr(<< RawCell("n1", 0, 0, 0, "Sample_1", "Alpha") >>)])

RawTextCoordinates ==
  JObj([cells |-> JArr(<< JObj([id |-> JStr("t1"), x |-> JStr("0"), y |-> JNum(0),
                                cluster |-> JNum(0)]) >>),
        clusters |-> JArr(<< RawCluster(0, "Alpha", 1, "red") >>)])

RawTextCluster ==
  JObj([cells |-> JArr(<< JObj([id |-> JStr("t1"), x |-> JNum(0), y |-> JNum(0),
                                cluster |-> JStr("Alpha")]) >>),
        clusters |-> JArr(<< RawCluster(0, "Alpha", 1, "red") >>)])

RawNullCell ==
  JObj([cells |-> JArr(<< JNull >>), clusters |-> JArr(<< RawCluster(0, "Alpha", 1, "red") >>)])

UploadFiles ==
  { File("three", ".json", RawThree), File("single", ".json", RawSingle),
    File("counted", ".json", RawCounted), File("orphan", ".json", RawOrphan),
    File("three", ".txt", RawThree), File("broken", ".json", Malformed),
    File("number", ".json", JNum(5)), File("null", ".json", JNull),
    File("empty", ".json", RawEmptyCells), File("nocells", ".json", RawNoCells),
    File("noclusters", ".json", RawNoClusters),
    File("textxy", ".json", RawTextCoordinates),
    File("textcluster", ".json", RawTextCluster),
    File("nullcell", ".json", RawNullCell) }

Invalid(message) == [valid |-> FALSE, errors |-> <<message>>, warnings |-> << >>]

FileName(file) == file.stem \o file.extension

\* handleFile from `await file.text()` on, once the text has been read
handleFileRead(file) ==
  LET parsed == file.content # Malformed
      threw == ~parsed \/ validateThrows(file.content)
      result == validateDataset(file.content)
  IN  IF threw
      THEN /\ validation' = Some(Invalid("Failed to parse JSON"))
           /\ UNCHANGED pendingData
      ELSE /\ validation' = Some(result)
           /\ pendingData' = IF result.valid THEN Some(file.content) ELSE pendingData

\* handleFile, from the drop zone or the file input, with a read that is
\* done before anything else happens
handleFile ==
  \E file \in UploadFiles :
    /\ IF file.extension # ".json"
       THEN /\ validation' = Some(Invalid("Only JSON files are supported"))
            /\ UNCHANGED <<pendingData, fileName>>
       ELSE /\ fileName' = Some(FileName(file))
            /\ handleFileRead(file)
    /\ lastOp' = [op |-> "File", file |-> file, pre |-> dataset]
    /\ UNCHANGED <<pageVars, toolVars, reads, cameraVars, selectionVars, counterVars, helperVars>>

\* "Load Dataset", enabled while the validation result is valid
handleConfirm ==
  /\ validation # None
  /\ Val(validation).valid
  /\ IF pendingData # None /\ Val(validation).valid
     THEN /\ handleDatasetLoad(normalizeDataset(Val(pendingData)))
          /\ validation' = None
          /\ pendingData' = None
          /\ fileName' = None
     ELSE UNCHANGED <<pageVars, validation, pendingData, fileName>>
  /\ lastOp' = [op |-> "Confirm", data |-> pendingData, pre |-> dataset,
                loaded |-> pendingData # None /\ Val(validation).valid,
                fileName |-> fileName]
  /\ UNCHANGED <<toolVars, reads, cameraVars, selectionVars, counterVars, helperVars>>

\* "Reset", shown while there is a validation result
handleReset ==
  /\ validation # None
  /\ validation' = None
  /\ pendingData' = None
  /\ fileName' = None
  /\ lastOp' = [op |-> "UploaderReset"]
  /\ UNCHANGED <<pageVars, toolVars, reads, cameraVars, selectionVars, counterVars, helperVars>>

NextUpload ==
  \/ handleFile
  \/ handleConfirm
  \/ handleReset

SpecUpload == Init /\ [][NextUpload]_vars

\* ------------------------------------------------------------------------
\* DatasetUploader with reads that take time: handleFile runs up to its
\* await when the file is chosen and goes on when the text arrives, in any
\* order among the pending reads
\* ------------------------------------------------------------------------
MaxReads == 2

\* the files chosen while reads are pending
ChosenFiles ==
  { File("three", ".json", RawThree), File("single", ".json", RawSingle),
    File("counted", ".json", RawCounted), File("broken", ".json", Malformed),
    File("noclusters", ".json", RawNoClusters), File("three", ".txt", RawThree) }

handleFileChosen ==
  \E file \in ChosenFiles :
    /\ IF file.extension # ".json"
       THEN /\ validation' = Some(Invalid("Only JSON files are supported"))
            /\ UNCHANGED <<fileName, reads>>
       ELSE /\ Cardinality(reads) < MaxReads
            /\ file \notin reads
            /\ fileName' = Some(FileName(file))
            /\ reads' = reads \cup {file}
            /\ UNCHANGED validation
    /\ lastOp' = [op |-> "FileChosen", file |-> file]
    /\ UNCHANGED <<pageVars, toolVars, pendingData, cameraVars, selectionVars, counterVars,
                   helperVars>>

handleFileResumed ==
  \E file \in reads :
    /\ handleFileRead(file)
    /\ reads' = reads \ {file}
    /\ lastOp' = [op |-> "FileRead", file |-> file]
    /\ UNCHANGED <<pageVars, toolVars, fileName, cameraVars, selectionVars, counterVars,
                   helperVars>>

NextUploadRace ==
  \/ handleFileChosen
  \/ handleFileResumed
  \/ handleConfirm
  \/ handleReset

SpecUploadRace == Init /\ [][NextUploadRace]_vars

\* ------------------------------------------------------------------------
\* Index: the memoized expressionData.  The helper value res holds the
\* memoized map (None while it is undefined).
\* ------------------------------------------------------------------------
\* the body of the expressionData memo; levels are the outcomes of the
\* random draws of the calls it makes
expressionData(ds, s, levels) ==
  IF s.selectedGene # Null
  THEN Some(getExpressionData(ds, s.selectedGene, levels[1]))
  ELSE IF s.showAveragedExpression /\ Len(s.selectedGenes) > 0
  THEN Some(getAveragedExpression(ds, s.selectedGenes, levels))
  ELSE None

\* the memo's dependencies are the selected gene, the selected genes, the
\* averaging switch and the dataset object: it is computed anew in the
\* render after any of them is replaced (here the dataset may be; the
\* settings stay)
renderExpressionData(replaced) ==
  /\ IF replaced
     THEN \E level \in RandomLevels :
            res' = expressionData(dataset', settings, [i \in 1..MaxGenes |-> level])
     ELSE res' = res
  /\ UNCHANGED arg

\* ------------------------------------------------------------------------
\* ClusterAnnotationTool: rename and color tabs, and the page's handlers
\* ------------------------------------------------------------------------
\* a rename of the cluster entry that leaves the cells' cell_type alone
handleRenameClusterNameOnly(prev, clusterId, newName) ==
  [prev EXCEPT !.clusters = [i \in DOMAIN prev.clusters |->
                               IF prev.clusters[i].id = clusterId
                               THEN [prev.clusters[i] EXCEPT !.name = newName]
                               ELSE prev.clusters[i]]]

handleRenameCluster(prev, clusterId, newName) ==
  [prev EXCEPT !.clusters = [i \in DOMAIN prev.clusters |->
                               IF prev.clusters[i].id = clusterId
                               THEN [prev.clusters[i] EXCEPT !.name = newName]
                               ELSE prev.clusters[i]],
               !.cells = [i \in DOMAIN prev.cells |->
                            IF prev.cells[i].cluster = clusterId
                            THEN [prev.cells[i] EXCEPT !.cell_type = newName]
                            ELSE prev.cells[i]]]

\* a recoloring without the test of the cluster id
handleChangeClusterColorEveryCluster(prev, clusterId, newColor) ==
  [prev EXCEPT !.clusters = [i \in DOMAIN prev.clusters |->
                               [prev.clusters[i] EXCEPT !.color = newColor]]]

handleChangeClusterColor(prev, clusterId, newColor) ==
  [prev EXCEPT !.clusters = [i \in DOMAIN prev.clusters |->
                               IF prev.clusters[i].id = clusterId
                               THEN [prev.clusters[i] EXCEPT !.color = newColor]
                               ELSE prev.clusters[i]]]

\* what the user types into the new-name input
RenameInputs == {" ", " Renamed "}

\* renameTo.trim() of the typed inputs; names taken from the cluster list
\* carry no outer blanks
Trim(text) ==
  CASE text = " " -> ""
    [] text = " Renamed " -> "Renamed"
    [] OTHER -> text

\* the rename select: picks the cluster and fills in its current name
selectRenameCluster(cap) ==
  \E id \in ClusterIds(dataset) :
    /\ Handled(cap)
    /\ renameClusterId' = Some(id)
    /\ renameTo' = ClusterNameOf(dataset.clusters, id)
    /\ lastOp' = [op |-> "selectRenameCluster"]
    /\ UNCHANGED <<pageVars, mergeVars, colorVars, uploaderVars, cameraVars, selectionVars,
                   helperVars>>

setRenameTo(cap) ==
  \E text \in RenameInputs :
    /\ Handled(cap)
    /\ renameTo' = text
    /\ lastOp' = [op |-> "setRenameTo"]
    /\ UNCHANGED <<pageVars, mergeVars, renameClusterId, colorVars, uploaderVars, cameraVars,
                   selectionVars, helperVars>>

\* handleRename and the render that follows it: setDataset puts a new
\* dataset object in place unless the rename is rejected
handleRename(cap) ==
  /\ Handled(cap)
  /\ IF renameClusterId = None \/ Trim(renameTo) = ""
     THEN /\ lastOp' = [op |-> "RenameRejected"]
          /\ UNCHANGED <<dataset, renameVars>>
          /\ renderExpressionData(FALSE)
     ELSE /\ dataset' = handleRenameCluster(dataset, Val(renameClusterId), Trim(renameTo))
          /\ renameTo' = ""
          /\ renameClusterId' = None
          /\ lastOp' = [op |-> "Rename", clusterId |-> Val(renameClusterId),
                        name |-> Trim(renameTo), pre |-> dataset, expression |-> res]
          /\ renderExpressionData(TRUE)
  /\ UNCHANGED <<originalDataset, settings, pageSelectedCells, mergeVars, colorVars,
                 uploaderVars, cameraVars, selectionVars>>

\* the color select: picks the cluster and shows its current color
selectColorCluster(cap) ==
  \E id \in ClusterIds(dataset) :
    LET current == {i \in DOMAIN dataset.clusters : dataset.clusters[i].id = id}
    IN  /\ Handled(cap)
        /\ colorClusterId' = Some(id)
        /\ selectedColor' = dataset.clusters[SetMin(current)].color
        /\ lastOp' = [op |-> "selectColorCluster"]
        /\ UNCHANGED <<pageVars, mergeVars, renameVars, uploaderVars, cameraVars,
                       selectionVars, helperVars>>

\* the preset swatches clicked
PickedColors == {"#e84393"}

setSelectedColor(cap) ==
  \E color \in PickedColors :
    /\ Handled(cap)
    /\ selectedColor' = color
    /\ lastOp' = [op |-> "setSelectedColor"]
    /\ UNCHANGED <<pageVars, mergeVars, renameVars, colorClusterId, uploaderVars, cameraVars,
                   selectionVars, helperVars>>

\* handleColorChange and the render that follows it
handleColorChange(cap) ==
  /\ Handled(cap)
  /\ IF colorClusterId = None
     THEN /\ lastOp' = [op |-> "ColorRejected"]
          /\ UNCHANGED dataset
          /\ renderExpressionData(FALSE)
     ELSE /\ dataset' = handleChangeClusterColor(dataset, Val(colorClusterId), selectedColor)
          /\ lastOp' = [op |-> "Color", clusterId |-> Val(colorClusterId),
                        color |-> selectedColor, pre |-> dataset, expression |-> res]
          /\ renderExpressionData(TRUE)
  /\ UNCHANGED <<originalDataset, settings, pageSelectedCells, toolVars, uploaderVars,
                 cameraVars, selectionVars>>

\* ------------------------------------------------------------------------
\* The annotation tool at work on the demo dataset and on uploaded ones:
\* merge, rename, recolor, reset, and datasets loaded through the uploader
\* ------------------------------------------------------------------------
MaxAnnotateEvents == 4

\* the tool as it is first opened, and the tool with its three tabs filled in
\* on the demo dataset: cluster 2 to be merged into cluster 1, cluster 1 to
\* be renamed, cluster 0 to be recolored
AnnotateToolStates ==
  { [mergeSourceIds |-> << >>, mergeTargetId |-> None, renameClusterId |-> None,
     renameTo |-> "", colorClusterId |-> None, selectedColor |-> "#3498db"],
    [mergeSourceIds |-> <<2>>, mergeTargetId |-> Some(1), renameClusterId |-> Some(1),
     renameTo |-> " Renamed ", colorClusterId |-> Some(0), selectedColor |-> "#e84393"] }

InitAnnotate ==
  /\ InitPage
  /\ \E tool \in AnnotateToolStates :
       /\ mergeSourceIds = tool.mergeSourceIds
       /\ mergeTargetId = tool.mergeTargetId
       /\ mergedName = ""
       /\ renameClusterId = tool.renameClusterId
       /\ renameTo = tool.renameTo
       /\ colorClusterId = tool.colorClusterId
       /\ selectedColor = tool.selectedColor
  /\ InitUploader
  /\ InitScatterPlot
  /\ InitBookkeeping

\* the uploads that pass validation, as "Load Dataset" hands them to the page
LoadableFiles ==
  {file \in UploadFiles :
     /\ file.extension = ".json"
     /\ file.content # Malformed
     /\ ~validateThrows(file.content)
     /\ validateDataset(file.content).valid}

UploadLoad ==
  \E file \in LoadableFiles :
    /\ handleDatasetLoad(normalizeDataset(file.content))
    /\ lastOp' = [op |-> "UploadLoad", file |-> file]
    /\ UNCHANGED <<toolVars, uploaderVars, cameraVars, selectionVars, counterVars, helperVars>>

NextAnnotate ==
  \/ UploadLoad
  \/ handleResetClusters
  \/ toggleMergeSource(MaxAnnotateEvents)
  \/ setMergeTargetId(MaxAnnotateEvents)
  \/ setMergedName(MaxAnnotateEvents)
  \/ handleMerge(MaxAnnotateEvents)
  \/ selectRenameCluster(MaxAnnotateEvents)
  \/ setRenameTo(MaxAnnotateEvents)
  \/ handleRename(MaxAnnotateEvents)
  \/ selectColorCluster(MaxAnnotateEvents)
  \/ setSelectedColor(MaxAnnotateEvents)
  \/ handleColorChange(MaxAnnotateEvents)

SpecAnnotate == InitAnnotate /\ [][NextAnnotate]_vars

\* ------------------------------------------------------------------------
\* The plot under a changing cell filter: what the draw loop puts where
\* ------------------------------------------------------------------------
drawnPositionsInFilteredBounds(cells, cellFilter, dims, tf) ==
  LET filtered == filteredCells(cells, cellFilter)
  IN  [id \in {filtered[i].id : i \in DOMAIN filtered} |->
         LET cell == filtered[CHOOSE i \in DOMAIN filtered : filtered[i].id = id]
         IN  dataToCanvas(R(cell.x), R(cell.y), dims, bounds(filtered), tf)]

\* filteredCells.forEach(cell => dataToCanvas(cell.x, cell.y)), by cell id;
\* dataToCanvas reads the bounds of all cells
drawnPositions(cells, cellFilter, dims, tf) ==
  LET filtered == filteredCells(cells, cellFilter)
  IN  [id \in {filtered[i].id : i \in DOMAIN filtered} |->
         LET cell == filtered[CHOOSE i \in DOMAIN filtered : filtered[i].id = id]
         IN  dataToCanvas(R(cell.x), R(cell.y), dims, bounds(cells), tf)]

MaxViewEvents == 2

\* the filter panel and the camera of the plot it filters
NextFilterView ==
  \/ handleSampleAdd
  \/ handleSampleRemove
  \/ handleClusterAdd
  \/ handleClusterRemove
  \/ handleClearAll
  \/ handleWheel(MaxViewEvents)
  \/ handleMouseDown(MaxViewEvents)
  \/ handleMouseMove(MaxViewEvents)
  \/ onMouseUp(MaxViewEvents)

SpecFilterView == Init /\ [][NextFilterView]_vars

\* ------------------------------------------------------------------------
\* MultiGeneSearch, and the page with its gene and filter controls across
\* dataset loads
\* ------------------------------------------------------------------------
MultiGeneMax == 20

handleAdd ==
  \E gene \in GeneNames :
    /\ Len(settings.selectedGenes) < MultiGeneMax
    /\ ~Includes(settings.selectedGenes, gene)
    /\ settings' = handleSettingsChange(settings,
                     [selectedGenes |-> Append(settings.selectedGenes, gene)])
    /\ lastOp' = [op |-> "GenesAdd"]
    /\ UNCHANGED <<dataset, originalDataset, pageSelectedCells, toolVars, uploaderVars,
                   cameraVars, selectionVars, counterVars, helperVars>>

handleRemove ==
  \E gene \in Range(settings.selectedGenes) :
    /\ settings' = handleSettingsChange(settings,
                     [selectedGenes |-> SelectSeq(settings.selectedGenes, LAMBDA g : g # gene)])
    /\ lastOp' = [op |-> "GenesRemove"]
    /\ UNCHANGED <<dataset, originalDataset, pageSelectedCells, toolVars, uploaderVars,
                   cameraVars, selectionVars, counterVars, helperVars>>

NextLoad ==
  \/ DatasetLoad
  \/ geneSelect
  \/ handleAdd
  \/ handleRemove
  \/ handleSampleAdd
  \/ handleSampleRemove
  \/ handleClusterAdd
  \/ handleClusterRemove
  \/ handleClearAll

SpecLoad == Init /\ [][NextLoad]_vars

\* ------------------------------------------------------------------------
\* ScatterPlot: the color of a drawn point
\* ------------------------------------------------------------------------
\* Math.round as a number: NaN and the infinities round to themselves
MathRound(a) == IF IsFinite(a) THEN R(Round(a)) ELSE a

\* the expressionToColor that ScatterPlot declares and calls; the channels
\* are numbers, NaN included
scatterExpressionToColor(value, min, max, scale) ==
  LET raw == IF REq(max, min) THEN Norm(1, 2) ELSE RDiv(RSub(value, min), RSub(max, min))
      normalized == Pow(raw, RDiv(R(1), scale))
  IN  IF RLt(normalized, Norm(1, 2))
      THEN LET t == RMul(normalized, R(2))
               gray == MathRound(RAdd(R(180), RMul(t, R(75))))
           IN  <<gray, gray, gray, R(255)>>
      ELSE LET t == RMul(RSub(normalized, Norm(1, 2)), R(2))
           IN  <<R(255),
                 MathRound(RSub(R(255), RMul(t, R(180)))),
                 MathRound(RSub(R(255), RMul(t, R(200)))),
                 R(255)>>

\* expression bounds with the scale in use, and for each the values colored:
\* values below, inside and above the bounds
PointColorRanges ==
  { [min |-> 0, max |-> 100, scale |-> 1, values |-> (0 - 10)..110],
    [min |-> 10, max |-> 20, scale |-> 1, values |-> 0..30],
    [min |-> 5, max |-> 5, scale |-> 1, values |-> {3, 5, 8}],
    [min |-> 0, max |-> 100, scale |-> 2, values |-> {0 - 5, 0, 100}] }

InitPointColor ==
  /\ InitPage
  /\ InitTool
  /\ InitUploader
  /\ InitScatterPlot
  /\ events = 0
  /\ lastOp = NoOp
  /\ \E range \in PointColorRanges, palette \in Palettes :
       arg = Some([min |-> range.min, max |-> range.max, scale |-> range.scale,
                   values |-> range.values, palette |-> palette])
  /\ res = None

\* the draw effect colors one cell by its expression value
colorPoint ==
  \E value \in Val(arg).values :
    /\ res = None
    /\ res' = Some([value |-> value,
                    color |-> scatterExpressionToColor(R(value), R(Val(arg).min), R(Val(arg).max),
                                                       R(Val(arg).scale))])
    /\ lastOp' = [op |-> "ColorPoint"]
    /\ UNCHANGED <<pageVars, toolVars, uploaderVars, cameraVars, selectionVars, counterVars, arg>>

NextPointColor == colorPoint

SpecPointColor == InitPointColor /\ [][NextPointColor]_vars

\* CLUSTER_COLORS of demoData
CLUSTER_COLORS ==
  << <<52, 152, 165>>, <<215, 95, 130>>, <<210, 180, 60>>, <<90, 165, 110>>, <<165, 105, 180>>,
     <<215, 130, 65>>, <<75, 170, 155>>, <<190, 100, 165>>, <<130, 170, 85>>, <<100, 140, 200>> >>

getClusterColorRGBA(clusterId, alpha) ==
  LET color == CLUSTER_COLORS[(clusterId % Len(CLUSTER_COLORS)) + 1]
  IN  <<color[1], color[2], color[3], Floor(RMul(alpha, R(255)))>>

\* color.match(/rgb\((\d+),\s*(\d+),\s*(\d+)\)/) on the color texts that the
\* datasets, the uploads and the color tab hold: the three captured numbers,
\* None where the pattern does not match (a hex text, a color name)
rgbMatch(color) ==
  CASE color = "rgb(52,152,165)" -> Some(<<52, 152, 165>>)
    [] color = "rgb(215,95,130)" -> Some(<<215, 95, 130>>)
    [] color = "rgb(210,180,60)" -> Some(<<210, 180, 60>>)
    [] color = "rgb(100, 140, 200)" -> Some(<<100, 140, 200>>)
    [] OTHER -> None

\* color.match(/hsl\((\d+),\s*(\d+)%,\s*(\d+)%\)/), likewise
hslMatch(color) ==
  CASE color = "hsl(0, 70%, 50%)" -> Some(<<0, 70, 50>>)
    [] color = "hsl(36, 70%, 50%)" -> Some(<<36, 70, 50>>)
    [] OTHER -> None

hue2rgb(p, q, t0) ==
  LET t1 == IF RLt(t0, R(0)) THEN RAdd(t0, R(1)) ELSE t0
      t == IF RGt(t1, R(1)) THEN RSub(t1, R(1)) ELSE t1
  IN  IF RLt(t, Norm(1, 6)) THEN RAdd(p, RMul(RMul(RSub(q, p), R(6)), t))
      ELSE IF RLt(t, Norm(1, 2)) THEN q
      ELSE IF RLt(t, Norm(2, 3))
      THEN RAdd(p, RMul(RMul(RSub(q, p), RSub(Norm(2, 3), t)), R(6)))
      ELSE p

parseColorToRGBA(color, alpha) ==
  LET a == Floor(RMul(alpha, R(255)))
  IN  IF rgbMatch(color) # None
      THEN LET m == Val(rgbMatch(color)) IN <<m[1], m[2], m[3], a>>
      ELSE IF hslMatch(color) # None
      THEN LET m == Val(hslMatch(color))
               h == Norm(m[1], 360)
               s == Norm(m[2], 100)
               l == Norm(m[3], 100)
               q == IF RLt(l, Norm(1, 2)) THEN RMul(l, RAdd(R(1), s))
                    ELSE RSub(RAdd(l, s), RMul(l, s))
               p == RSub(RMul(R(2), l), q)
               r == IF s = R(0) THEN l ELSE hue2rgb(p, q, RAdd(h, Norm(1, 3)))
               g == IF s = R(0) THEN l ELSE hue2rgb(p, q, h)
               b == IF s = R(0) THEN l ELSE hue2rgb(p, q, RSub(h, Norm(1, 3)))
           IN  <<Round(RMul(r, R(255))), Round(RMul(g, R(255))), Round(RMul(b, R(255))), a>>
      ELSE <<100, 140, 200, a>>

\* Index: annotationData while the "cluster" annotation is selected.
\* colorMap holds, for each key, the color of the last cluster with that key.
annotationData(ds) ==
  LET key(id) == "Cluster " \o ToString(id)
      keys == {key(ds.clusters[i].id) : i \in DOMAIN ds.clusters}
  IN  [colorMap |-> [k \in keys |->
                       ds.clusters[SetMax({i \in DOMAIN ds.clusters : key(ds.clusters[i].id) = k})].color],
       getCellValue |-> [i \in DOMAIN ds.cells |-> key(ds.cells[i].cluster)]]

\* settings.opacity, which no control of the model changes
Opacity == Norm(4, 5)

\* the props of the left (annotation) and of the right (expression) plot;
\* expression is the page's expression map, None when it is undefined
leftPlot(ds) ==
  [selectedGene |-> Null, expressionData |-> None, annotationData |-> Some(annotationData(ds)),
   showClusters |-> TRUE, opacity |-> Opacity, expressionScale |-> R(1)]

rightPlot(s, expression) ==
  LET effectiveGeneLabel ==
        IF s.selectedGene # Null THEN s.selectedGene
        ELSE IF s.showAveragedExpression /\ Len(s.selectedGenes) > 0 THEN "Avg" ELSE Null
  IN  [selectedGene |-> effectiveGeneLabel, expressionData |-> expression,
       annotationData |-> None, showClusters |-> effectiveGeneLabel = Null,
       opacity |-> Opacity, expressionScale |-> R(1)]

\* ScatterPlot: expressionBounds of an expression map of at most
\* ClipMinValues values (true minimum and maximum), {0, 1} without a map
scatterExpressionBounds(expression) ==
  IF expression = None \/ DOMAIN Val(expression) = {}
  THEN [min |-> R(0), max |-> R(1)]
  ELSE LET map == Val(expression)
           values == {map[id] : id \in DOMAIN map}
       IN  [min |-> CHOOSE v \in values : \A w \in values : RLe(v, w),
            max |-> CHOOSE v \in values : \A w \in values : RGe(v, w)]

\* the draw effect's color of the i-th cell of the dataset
pointColor(ds, i, props) ==
  LET cell == ds.cells[i]
      a == Floor(RMul(props.opacity, R(255)))
  IN  IF props.selectedGene # Null /\ props.expressionData # None
      THEN LET map == Val(props.expressionData)
               expr == IF cell.id \in DOMAIN map THEN map[cell.id] ELSE R(0)
               bnds == scatterExpressionBounds(props.expressionData)
               baseColor == scatterExpressionToColor(expr, bnds.min, bnds.max, props.expressionScale)
           IN  <<baseColor[1], baseColor[2], baseColor[3], R(a)>>
      ELSE IF props.annotationData # None
      THEN LET data == Val(props.annotationData)
               annotationValue == data.getCellValue[i]
           IN  IF annotationValue \in DOMAIN data.colorMap
               THEN parseColorToRGBA(data.colorMap[annotationValue], props.opacity)
               ELSE parseColorToRGBA("rgb(100, 140, 200)", props.opacity)
      ELSE IF props.showClusters
      THEN getClusterColorRGBA(cell.cluster, props.opacity)
      ELSE <<100, 140, 200, a>>

\* ------------------------------------------------------------------------
\* A selection made on the plot, and the page going on: the sample filter
\* is edited and datasets are loaded
\* ------------------------------------------------------------------------
MaxSelectEvents == 4

NextSelection ==
  \/ onModeChange(MaxSelectEvents)
  \/ handleMouseDown(MaxSelectEvents)
  \/ handleMouseMove(MaxSelectEvents)
  \/ onMouseUp(MaxSelectEvents)
  \/ handleSampleAdd
  \/ handleSampleRemove
  \/ DatasetLoad

SpecSelection == Init /\ [][NextSelection]_vars

\* ------------------------------------------------------------------------
\* The cluster filter and the merge tab side by side, with resets and loads
\* ------------------------------------------------------------------------
NextFilterMerge ==
  \/ handleClusterAdd
  \/ handleClusterRemove
  \/ handleClearAll
  \/ toggleMergeSource(MaxMergeEvents)
  \/ setMergeTargetId(MaxMergeEvents)
  \/ setMergedName(MaxMergeEvents)
  \/ handleMerge(MaxMergeEvents)
  \/ handleResetClusters
  \/ DatasetLoad

SpecFilterMerge == Init /\ [][NextFilterMerge]_vars

\* ------------------------------------------------------------------------
\* Index: the memoized expressionData across renames and recolorings
\* ------------------------------------------------------------------------
\* a gene is selected and its expression map rendered, on the demo dataset
\* (maps are generated) and on an upload with embedded expression
InitExpression ==
  /\ \E ds \in {generateDemoDataset, UploadThree}, gene \in GeneNames, level \in RandomLevels :
       /\ dataset = ds
       /\ originalDataset = ds
       /\ settings = [defaultSettings EXCEPT !.selectedGene = gene]
       /\ res = expressionData(ds, settings, <<level>>)
  /\ pageSelectedCells = << >>
  /\ InitTool
  /\ InitUploader
  /\ InitScatterPlot
  /\ events = 0
  /\ lastOp = NoOp
  /\ arg = None

NextExpression ==
  \/ selectRenameCluster(MaxAnnotateEvents)
  \/ setRenameTo(MaxAnnotateEvents)
  \/ handleRename(MaxAnnotateEvents)
  \/ selectColorCluster(MaxAnnotateEvents)
  \/ setSelectedColor(MaxAnnotateEvents)
  \/ handleColorChange(MaxAnnotateEvents)

SpecExpression == InitExpression /\ [][NextExpression]_vars

\* ========================================================================
\* Claims
\* ========================================================================

\* C1: after every merge whose target is not among its sources the number of
\* cells is unchanged, metadata.clusterCount has dropped by exactly the number
\* of ids in sourceIds, and every cell that was in a source cluster is now in
\* the target cluster.
C1_MergeInvariant ==
  (lastOp.op = "Merge" /\ ~Includes(lastOp.sourceIds, lastOp.targetId)) =>
    /\ Len(dataset.cells) = Len(lastOp.pre.cells)
    /\ dataset.clusterCount = lastOp.pre.clusterCount - Len(lastOp.sourceIds)
    /\ \A i \in DOMAIN lastOp.pre.cells :
         Includes(lastOp.sourceIds, lastOp.pre.cells[i].cluster)
           => dataset.cells[i].cluster = lastOp.targetId

\* C2: the stored percentile bounds always satisfy low < high, and a slider
\* update with low >= high leaves the stored settings exactly as they were.
C2_PercentileOrdering ==
  /\ settings.percentileLow < settings.percentileHigh
  /\ (lastOp.op = "PercentileSlider" /\ lastOp.low >= lastOp.high)
       => settings = lastOp.pre

\* an update from (5, 95) to (96, 10) has been attempted, and one was accepted before
C2_Witness ==
  /\ lastOp.op = "PercentileSlider"
  /\ lastOp.low = 96 /\ lastOp.high = 10
  /\ lastOp.pre.percentileLow = 5 /\ lastOp.pre.percentileHigh = 95
  /\ lastOp.pre.selectedGene # Null

\* C3: for every camera state, all canvas dimensions and every data point,
\* canvasToData(dataToCanvas(x, y)) is (x, y).
C3_RoundTrip ==
  lastOp.op = "RoundTrip" =>
    /\ REq(Val(res).data.x, Val(arg).x)
    /\ REq(Val(res).data.y, Val(arg).y)

\* C4: when a mouse-up (or the pointer leaving the canvas) ends a rectangle or
\* lasso gesture, the committed selection is exactly the set of ids of the
\* currently filtered cells whose canvas position under the current camera is
\* inside the inclusive rectangle (in rectangle mode) or inside the lasso
\* polygon (in lasso mode), whatever was selected before; the page receives
\* those cells in filtered-cell order; a rectangle from the image of (0,0) to
\* the image of (10,10) over cells at (0,0), (10,10), (100,100) under the
\* identity camera selects exactly the first two cells.
C4_SelectionCommit ==
  (lastOp.op \in {"MouseUp", "MouseLeave"} /\ lastOp.committed) =>
    LET filtered == filteredCells(dataset.cells, Some(settings.cellFilter))
        bnds == bounds(dataset.cells)
        pos(c) == dataToCanvas(R(c.x), R(c.y), dimensions, bnds, transform)
        r == Val(lastOp.rect)
        inRect(c) == /\ RLe(RMin(r.x1, r.x2), pos(c).x) /\ RLe(pos(c).x, RMax(r.x1, r.x2))
                     /\ RLe(RMin(r.y1, r.y2), pos(c).y) /\ RLe(pos(c).y, RMax(r.y1, r.y2))
        inLasso(c) == pointInPolygon(pos(c).x, pos(c).y, lastOp.lasso)
        idsWhere(P(_)) == {filtered[i].id : i \in {k \in DOMAIN filtered : P(filtered[k])}}
    IN  /\ (lastOp.mode = "rectangle" /\ lastOp.rect # None)
             => selectedCells = idsWhere(inRect)
        /\ lastOp.mode = "lasso" => selectedCells = idsWhere(inLasso)
        /\ pageSelectedCells = SelectSeq(filtered, LAMBDA c : c.id \in selectedCells)
        /\ ( /\ dataset = UploadThree
             /\ settings.cellFilter = defaultCellFilter
             /\ transform = [x |-> R(0), y |-> R(0), scale |-> R(1)]
             /\ lastOp.mode = "rectangle"
             /\ lastOp.rect = Some([x1 |-> Norm(275, 3), y1 |-> Norm(1250, 3),
                                    x2 |-> Norm(400, 3), y2 |-> Norm(1150, 3)]) )
             => selectedCells = {"u1", "u2"}

\* a rectangle drawn from the image of (0,0) to the image of (10,10) has just
\* been committed over the three uploaded cells under the identity camera,
\* replacing a selection that held the third cell
C4_Witness ==
  /\ lastOp.op = "MouseUp" /\ lastOp.committed
  /\ lastOp.mode = "rectangle"
  /\ lastOp.rect = Some([x1 |-> Norm(275, 3), y1 |-> Norm(1250, 3),
                         x2 |-> Norm(400, 3), y2 |-> Norm(1150, 3)])
  /\ lastOp.preSelected = {"u3"}
  /\ dataset = UploadThree
  /\ settings.cellFilter = defaultCellFilter
  /\ transform = [x |-> R(0), y |-> R(0), scale |-> R(1)]
  /\ selectedCells = {"u1", "u2"}
  /\ Len(pageSelectedCells) = 2

\* C5: the filter passes a cell if and only if (no sample is selected or the
\* cell's sample is selected) and (no cluster is selected or the cell's cluster
\* is selected), keeping the cells' order; filtering the result again with the
\* same filter returns the same list.
C5_FilterIdempotent ==
  lastOp.op = "Filter" =>
    LET cells == Val(arg).cells
        f == Val(arg).cellFilter
        out == Val(res).cells
        passes(c) == /\ (f.selectedSamples = << >> \/ c.sample \in Range(f.selectedSamples))
                     /\ (f.selectedClusters = << >> \/ c.cluster \in Range(f.selectedClusters))
    IN  /\ \A i \in DOMAIN cells : (cells[i] \in Range(out)) <=> passes(cells[i])
        /\ out = SelectSeq(cells, LAMBDA c : c \in Range(out))
        /\ Val(res).count = Len(out)
        /\ filteredCells(out, Some(f)) = out

\* the demo cells have been filtered by sample Sample_2 and cluster 1, which
\* leaves one of the four
C5_Witness ==
  /\ lastOp.op = "Filter"
  /\ Val(arg).cells = DemoCells
  /\ Val(arg).cellFilter = [selectedSamples |-> <<"Sample_2">>, selectedClusters |-> <<1>>]
  /\ Len(Val(res).cells) = 1
  /\ Val(res).cells[1].id = "c4"

\* C6 as stated: with clipping on, the bounds of the 100 values 0..99 with
\* percentileLow = 5 and percentileHigh = 95 are (min = 5, max = 94).
C6_ClaimedBounds ==
  ( /\ lastOp.op = "ExpressionBounds"
    /\ Range(Val(arg)) = 0..99 /\ Len(Val(arg)) = 100
    /\ settings.usePercentileClipping
    /\ settings.percentileLow = 5 /\ settings.percentileHigh = 95 )
    => Val(res) = [min |-> 5, max |-> 94]

\* C6: with clipping on, the bounds of the 100 values 0..99 with
\* percentileLow = 5 and percentileHigh = 95 are (min = 4, max = 95), the
\* values at the indices floor(0.05 * 99) = 4 and ceil(0.95 * 99) = 95.
C6_Bounds ==
  ( /\ lastOp.op = "ExpressionBounds"
    /\ Range(Val(arg)) = 0..99 /\ Len(Val(arg)) = 100
    /\ settings.usePercentileClipping
    /\ settings.percentileLow = 5 /\ settings.percentileHigh = 95 )
    => Val(res) = [min |-> 4, max |-> 95]

\* the bounds of 99, 98, ..., 0 have been computed with clipping at 5 and 95
C6_Witness ==
  /\ lastOp.op = "ExpressionBounds"
  /\ Len(Val(arg)) = 100 /\ Val(arg)[1] = 99 /\ Range(Val(arg)) = 0..99
  /\ settings.usePercentileClipping
  /\ settings.percentileLow = 5 /\ settings.percentileHigh = 95
  /\ Val(res).min = 4 /\ Val(res).max = 95

\* C7: the averaged map has exactly the cell ids that appear in at least one
\* selected gene's map, and each cell's value is the mean of the values present
\* for it (a gene without an entry for the cell is left out, not counted as
\* zero); with gene A holding 2 for a cell and gene B holding no entry for it,
\* the average over [A, B] is 2.
C7_AverageOfPresent ==
  lastOp.op = "Averaged" =>
    LET maps == lastOp.geneMaps
        out == Val(res)
        having(c) == {i \in DOMAIN maps : c \in DOMAIN maps[i]}
    IN  /\ DOMAIN out = UNION {DOMAIN maps[i] : i \in DOMAIN maps}
        /\ \A c \in DOMAIN out :
             LET n == Cardinality(having(c))
             IN  /\ n > 0
                 \* n times the mean is the sum of the n values present
                 /\ RMul(out[c], R(n)) = SumOver(maps, c, Len(maps)).sum
                 /\ n = 1 => \A i \in having(c) : out[c] = maps[i][c]
        /\ (dataset = UploadThree /\ Val(arg) = <<"A", "B">>) => out["u1"] = R(2)

\* the average over [A, B] has been computed for the upload in which A holds
\* 2 for u1 and 4 for u2 and B holds only 6 for u2
C7_Witness ==
  /\ lastOp.op = "Averaged"
  /\ dataset = UploadThree
  /\ Val(arg) = <<"A", "B">>
  /\ DOMAIN Val(res) = {"u1", "u2"}
  /\ Val(res)["u1"] = R(2)
  /\ Val(res)["u2"] = R(5)

\* C8 as stated: for min < max, scale 1 and any palette, the colors of two
\* values v1 < v2 differ unless both values normalize outside [0,1] on the
\* same side.
C8_ClaimedDistinct ==
  lastOp.op = "Color" =>
    LET a == Val(arg)
        bothBelow == a.v1 < a.min /\ a.v2 < a.min
        bothAbove == a.v1 > a.max /\ a.v2 > a.max
    IN  ~(bothBelow \/ bothAbove) => Val(res)[1] # Val(res)[2]

\* C8: for min < max, scale 1 and any palette, the colors of two values
\* v1 < v2 differ when both values lie in [min, max] and their normalized
\* positions are at least 1/100 apart, and are the same when both values lie
\* at or beyond the same end of [min, max].
C8_DistinctWhenApart ==
  lastOp.op = "Color" =>
    LET a == Val(arg)
        inRange == a.min <= a.v1 /\ a.v2 <= a.max
        apart == 100 * (a.v2 - a.v1) >= a.max - a.min
        sameEnd == a.v2 <= a.min \/ a.v1 >= a.max
    IN  /\ (inRange /\ apart) => Val(res)[1] # Val(res)[2]
        /\ sameEnd => Val(res)[1] = Val(res)[2]

\* 50 and 51 have been colored on [0, 100] with viridis: the first sits on
\* the middle stop, the second one hundredth above it
C8_Witness ==
  /\ lastOp.op = "Color"
  /\ Val(arg).palette = "viridis"
  /\ Val(arg).min = 0 /\ Val(arg).max = 100
  /\ Val(arg).v1 = 50 /\ Val(arg).v2 = 51
  /\ Val(res)[1] = <<33, 145, 140, 255>>
  /\ Val(res)[2] # Val(res)[1]

\* C9: in every reachable state, after any sequence of wheel events, zoom
\* button clicks, pan drags and view resets, the camera scale is in [0.5, 10].
C9_ScaleClamped ==
  /\ RLe(Norm(1, 2), transform.scale)
  /\ RLe(transform.scale, R(10))

\* a zoom-out click has brought the scale down to the lower clamp after a pan
C9_Witness ==
  /\ lastOp.op = "ZoomOut"
  /\ transform.scale = Norm(1, 2)
  /\ transform.x # R(0)

\* C10: isPanning and isSelecting are never both true, for every interleaving
\* of mouse-down, mouse-move, mouse-up, mouse-leave and mode-change events.
C10_OneGesture == ~(isPanning /\ isSelecting)

\* C11: when the selection mode is switched while a lasso or rectangle
\* gesture is in progress, the gesture is discarded: right after the switch no
\* gesture is in progress and its lasso points and rectangle are dropped, and
\* a mouse-up (or mouse-leave) that ends a gesture begun in another mode (it
\* still holds a rectangle in lasso mode, lasso points in rectangle mode, or
\* either in mode none) leaves the committed selection as it was.
C11_GestureDiscarded ==
  /\ (lastOp.op = "ModeChange" /\ lastOp.wasSelecting /\ lastOp.from # selectionMode)
       => (~isSelecting /\ lassoPoints = << >> /\ rectSelection = None)
  /\ (/\ lastOp.op \in {"MouseUp", "MouseLeave"}
      /\ lastOp.committed
      /\ \/ lastOp.mode = "none"
         \/ lastOp.mode = "lasso" /\ lastOp.rect # None
         \/ lastOp.mode = "rectangle" /\ lastOp.lasso # << >>)
       => selectedCells = lastOp.preSelected

\* C12: right after every change of the selection mode the committed set of
\* selected cell ids is empty.
C12_ModeChangeClears ==
  (lastOp.op = "ModeChange" /\ lastOp.from # selectionMode) => selectedCells = {}

\* C13: a Merge whose target is one of its sources is rejected and mutates
\* nothing: the dataset (cells, cluster list with names and cell counts,
\* clusterCount) and the original snapshot are what they were before, and no
\* merge that reaches handleMergeClusters has its target among its sources.
C13_InvalidTargetRejected ==
  /\ (lastOp.op = "MergeRejected" /\ lastOp.why = "target")
       => (dataset = lastOp.pre /\ Includes(lastOp.sourceIds, Val(lastOp.targetId)))
  /\ lastOp.op = "Merge" => ~Includes(lastOp.sourceIds, lastOp.targetId)

C13_Witness ==
  /\ lastOp.op = "MergeRejected"
  /\ lastOp.why = "target"
  /\ Includes(mergeSourceIds, Val(mergeTargetId))
  /\ Len(mergeSourceIds) = 2
  /\ dataset = lastOp.pre

\* C14: Reset makes the dataset equal to the snapshot captured at the most
\* recent dataset load, the demo dataset if none was loaded, whatever renames,
\* merges and recolorings came before: the snapshot is the demo dataset at
\* the start, every load sets the snapshot and the dataset to the loaded
\* dataset, no other step changes the snapshot, and every reset leaves the
\* dataset (cells, cluster list, clusterCount) equal to the snapshot.
C14_ResetRestores ==
  [][ /\ lastOp.op = "none" => originalDataset = generateDemoDataset
      /\ lastOp'.op = "UploadLoad"
           => /\ originalDataset' = normalizeDataset(lastOp'.file.content)
              /\ dataset' = originalDataset'
      /\ lastOp'.op # "UploadLoad" => originalDataset' = originalDataset
      /\ lastOp'.op = "Reset" => dataset' = originalDataset ]_vars

\* a reset of the demo dataset after a merge, a rename and a recoloring
C14_Witness ==
  /\ lastOp.op = "Reset"
  /\ dataset = generateDemoDataset
  /\ lastOp.pre.clusterCount = 2
  /\ \E i \in DOMAIN lastOp.pre.cells : lastOp.pre.cells[i].cell_type = "Renamed"
  /\ \E i \in DOMAIN lastOp.pre.clusters : lastOp.pre.clusters[i].name = "Renamed"
  /\ \E i \in DOMAIN lastOp.pre.clusters : lastOp.pre.clusters[i].color = "#e84393"
  /\ \E i \in DOMAIN lastOp.pre.cells : lastOp.pre.cells[i].cluster # dataset.cells[i].cluster

\* C15: in every reachable state every cluster's cellCount is the number of
\* cells whose cluster is that cluster's id.
C15_CellCountsTally ==
  \A i \in DOMAIN dataset.clusters :
    dataset.clusters[i].cellCount = CountInCluster(dataset.cells, dataset.clusters[i].id)

\* C16: in every reachable state every cell's cluster is the id of a cluster
\* in the dataset's cluster list.
C16_ClusterInList ==
  \A i \in DOMAIN dataset.cells : dataset.cells[i].cluster \in ClusterIds(dataset)

\* C17: a dataset reaches the page only through "Load Dataset" on data for
\* which validation found no hard error, and then normalized; a dropped file
\* validates as valid exactly when it is a parsed .json file without a hard
\* error, the hard errors being: cells is not a non-empty array, the first
\* cell lacks a numeric x, y or cluster, clusters is not an array; missing
\* genes or metadata only add a warning; a file that fails leaves the active
\* dataset as it was and leaves nothing invalid to load.
C17_OnlyValidLoads ==
  [][ LET hardError(data) ==
            LET cells == Prop(data, "cells")
            IN  \/ cells.t # "array"
                \/ Len(cells.v) = 0
                \/ Prop(cells.v[1], "x").t # "number"
                \/ Prop(cells.v[1], "y").t # "number"
                \/ Prop(cells.v[1], "cluster").t # "number"
                \/ Prop(data, "clusters").t # "array"
          accepted(file) ==
            file.extension = ".json" /\ file.content # Malformed /\ ~hardError(file.content)
      IN  /\ dataset' # dataset
               => /\ lastOp'.op = "Confirm"
                  /\ validation # None /\ Val(validation).valid
                  /\ pendingData # None /\ ~hardError(Val(pendingData))
                  /\ dataset' = normalizeDataset(Val(pendingData))
          /\ lastOp'.op = "File"
               => /\ dataset' = dataset
                  /\ Val(validation').valid = accepted(lastOp'.file)
                  /\ Val(validation').valid => pendingData' = Some(lastOp'.file.content)
                  /\ (accepted(lastOp'.file) /\ Prop(lastOp'.file.content, "genes").t # "array")
                       => Len(Val(validation').warnings) > 0
                  /\ (accepted(lastOp'.file) /\ Prop(lastOp'.file.content, "metadata").t # "object")
                       => Len(Val(validation').warnings) > 0 ]_vars

\* the upload without genes and metadata has been loaded over an earlier upload
C17_Witness ==
  /\ lastOp.op = "Confirm"
  /\ lastOp.loaded
  /\ lastOp.data = Some(RawSingle)
  /\ lastOp.pre = normalizeDataset(RawThree)
  /\ dataset = normalizeDataset(RawSingle)
  /\ validation = None

\* C18: during a pan drag (a mouse-down in mode none followed by mouse-moves)
\* the pan offset after every mouse-move is the pan offset at the mouse-down
\* plus the cursor's displacement since the mouse-down, however many moves
\* came between and wherever they went; with the cursor back at the
\* mouse-down position the pan offset is the one held at the mouse-down.
C18_PanFollowsCursor ==
  (lastOp.op = "MouseMove" /\ lastOp.wasPanning /\ lastOp.down # None)
    => LET down == Val(lastOp.down)
       IN  /\ transform.x = RAdd(down.pan.x, RSub(lastOp.at.x, down.at.x))
           /\ transform.y = RAdd(down.pan.y, RSub(lastOp.at.y, down.at.y))
           /\ lastOp.at = down.at => (transform.x = down.pan.x /\ transform.y = down.pan.y)

\* a second drag, begun with the plot already panned, after four moves: the
\* cursor has left the mouse-down position and is back at it
C18_Witness ==
  /\ lastOp.op = "MouseMove"
  /\ lastOp.wasPanning
  /\ lastOp.down # None
  /\ lastOp.at = Val(lastOp.down).at
  /\ Val(lastOp.down).pan # Pt(R(0), R(0))
  /\ transform.x = Val(lastOp.down).pan.x
  /\ transform.y = Val(lastOp.down).pan.y
  /\ events = 6

\* C19: a change of the cell filter changes neither the data bounds nor the
\* camera transform, and every cell that passes both the old and the new
\* filter is drawn at the canvas position it had before.
C19_FilterKeepsView ==
  [][ settings'.cellFilter # settings.cellFilter
        => LET before == drawnPositions(dataset.cells, Some(settings.cellFilter),
                                        dimensions, transform)
               after == drawnPositions(dataset'.cells, Some(settings'.cellFilter),
                                       dimensions', transform')
           IN  /\ bounds(dataset'.cells) = bounds(dataset.cells)
               /\ transform' = transform
               /\ \A id \in DOMAIN before \cap DOMAIN after : after[id] = before[id] ]_vars

\* the plot, panned by a drag, shows the two cells of Sample_2 alone
C19_Witness ==
  /\ lastOp.op = "SampleAdd"
  /\ settings.cellFilter.selectedSamples = <<"Sample_2">>
  /\ transform.x # R(0)
  /\ transform.y # R(0)
  /\ DOMAIN drawnPositions(dataset.cells, Some(settings.cellFilter), dimensions, transform)
       = {"c3", "c4"}

\* C20: right after every dataset load selectedGene is null, selectedGenes is
\* empty and the cell filter selects no sample and no cluster, whatever they
\* were before the load.
C20_LoadResetsSelections ==
  lastOp.op = "DatasetLoad"
    => /\ settings.selectedGene = Null
       /\ settings.selectedGenes = << >>
       /\ settings.cellFilter.selectedSamples = << >>
       /\ settings.cellFilter.selectedClusters = << >>

\* a load with a gene, two more genes, a sample and a cluster selected
C20_Witness ==
  /\ lastOp.op = "DatasetLoad"
  /\ lastOp.pre.selectedGene = "MYH7"
  /\ Len(lastOp.pre.selectedGenes) = 2
  /\ Len(lastOp.pre.cellFilter.selectedSamples) = 1
  /\ Len(lastOp.pre.cellFilter.selectedClusters) = 1
  /\ settings.selectedGene = Null
  /\ settings.selectedGenes = << >>
  /\ settings.cellFilter = defaultCellFilter
  /\ dataset = UploadThree

\* C21: right after every mouse-up and every mouse-leave on the canvas no
\* gesture is in progress (isPanning and isSelecting are false), the lasso
\* point list is empty and the rectangle is null.
C21_ReleaseEndsGesture ==
  lastOp.op \in {"MouseUp", "MouseLeave"}
    => /\ ~isPanning
       /\ ~isSelecting
       /\ lassoPoints = << >>
       /\ rectSelection = None

\* the cursor leaves the canvas during a lasso of three points, which is
\* committed and closed
C21_Witness ==
  /\ lastOp.op = "MouseLeave"
  /\ lastOp.committed
  /\ lastOp.mode = "lasso"
  /\ Len(lastOp.lasso) = 3
  /\ selectedCells # {}
  /\ ~isPanning
  /\ ~isSelecting
  /\ lassoPoints = << >>
  /\ rectSelection = None

\* C22: a gesture released in lasso mode with fewer than 3 lasso vertices
\* selects no cell: the committed selection is empty afterwards and the
\* parent page holds an empty list.
C22_ShortLassoSelectsNothing ==
  (/\ lastOp.op \in {"MouseUp", "MouseLeave"}
   /\ lastOp.committed
   /\ lastOp.mode = "lasso"
   /\ Len(lastOp.lasso) < 3)
    => /\ selectedCells = {}
       /\ pageSelectedCells = << >>

\* a lasso of two vertices is released
C22_Witness ==
  /\ lastOp.op = "MouseUp"
  /\ lastOp.committed
  /\ lastOp.mode = "lasso"
  /\ Len(lastOp.lasso) = 2
  /\ selectedCells = {}
  /\ pageSelectedCells = << >>

\* the color a color text denotes, for the texts of the model
CssColor(color) ==
  CASE color = "rgb(52,152,165)" -> <<52, 152, 165>>
    [] color = "rgb(215,95,130)" -> <<215, 95, 130>>
    [] color = "rgb(210,180,60)" -> <<210, 180, 60>>
    [] color = "hsl(0, 70%, 50%)" -> <<217, 38, 38>>
    [] color = "hsl(36, 70%, 50%)" -> <<217, 145, 38>>
    [] color = "#e84393" -> <<232, 67, 147>>
    [] color = "#3498db" -> <<52, 152, 219>>
    [] color = "red" -> <<255, 0, 0>>
    [] color = "blue" -> <<0, 0, 255>>
    [] color = "green" -> <<0, 128, 0>>

\* C23: every filtered cell is drawn with the color of the first rule that
\* applies.  With no gene selected: on the plot with annotation coloring
\* (the cluster annotation) the color of the cell's annotation value, on the
\* plot without it and with show-clusters on the color currently assigned to
\* the cell's cluster, each at the configured opacity.
C23_ColoringRule ==
  LET alpha == Floor(RMul(Opacity, R(255)))
      withAlpha(rgb) == <<rgb[1], rgb[2], rgb[3], alpha>>
      filtered == {i \in DOMAIN dataset.cells :
                     Includes(filteredCells(dataset.cells, Some(settings.cellFilter)), dataset.cells[i])}
      assigned(i) ==
        {dataset.clusters[k].color : k \in {j \in DOMAIN dataset.clusters :
                                              dataset.clusters[j].id = dataset.cells[i].cluster}}
      left == leftPlot(dataset)
      right == rightPlot(settings, None)
  IN  \A i \in filtered :
        /\ \A color \in assigned(i) : pointColor(dataset, i, left) = withAlpha(CssColor(color))
        /\ right.selectedGene = Null
             => \A color \in assigned(i) : pointColor(dataset, i, right) = withAlpha(CssColor(color))

\* C24: the expression color of a scatter point is that of the value clamped
\* to the bounds: every value <= min has the color of the active palette's
\* first stop, every value >= max that of its last stop, and with min = max
\* every value has the palette's color at position 0.5.
C24_PointColorClamped ==
  (lastOp.op = "ColorPoint") =>
    LET in == Val(arg)
        out == Val(res)
        stops == PALETTE_MAP(in.palette)
        at(t) == LET rgb == interpolateStops(stops, t)
                 IN  <<R(rgb[1]), R(rgb[2]), R(rgb[3]), R(255)>>
    IN  /\ (in.min < in.max /\ out.value <= in.min) => out.color = at(R(0))
        /\ (in.min < in.max /\ out.value >= in.max) => out.color = at(R(1))
        /\ (in.min = in.max) => out.color = at(Norm(1, 2))

\* C25: Recolor(clusterId, newColor) changes only the color of the cluster
\* with that id: the cells, every other cluster, every cluster's name and
\* cell count, the length of the cluster list and clusterCount stay as they
\* were.
C25_RecolorFrame ==
  lastOp.op = "Color" =>
    LET pre == lastOp.pre
    IN  /\ dataset.cells = pre.cells
        /\ dataset.clusterCount = pre.clusterCount
        /\ dataset.expression = pre.expression
        /\ DOMAIN dataset.clusters = DOMAIN pre.clusters
        /\ \A i \in DOMAIN pre.clusters :
             dataset.clusters[i] =
               IF pre.clusters[i].id = lastOp.clusterId
               THEN [pre.clusters[i] EXCEPT !.color = lastOp.color]
               ELSE pre.clusters[i]

\* cluster 0 of the demo dataset gets a new color and cluster 1 keeps its own
C25_Witness ==
  /\ lastOp.op = "Color"
  /\ lastOp.clusterId = 0
  /\ lastOp.pre.clusters[1].color = "rgb(52,152,165)"
  /\ dataset.clusters[1].color = "#e84393"
  /\ dataset.clusters[2].color = "rgb(215,95,130)"
  /\ dataset.cells = DemoCells

\* C26: Rename(clusterId, newName) sets the name of the cluster with that
\* id and the cell_type of every cell of that cluster to newName, and leaves
\* every other cluster, every cell outside that cluster, every cell's other
\* fields and cluster assignment, all cell counts, the length of the cluster
\* list and clusterCount as they were.
C26_RenameFrame ==
  lastOp.op = "Rename" =>
    LET pre == lastOp.pre
    IN  /\ dataset.clusterCount = pre.clusterCount
        /\ dataset.expression = pre.expression
        /\ DOMAIN dataset.clusters = DOMAIN pre.clusters
        /\ \A i \in DOMAIN pre.clusters :
             dataset.clusters[i] =
               IF pre.clusters[i].id = lastOp.clusterId
               THEN [pre.clusters[i] EXCEPT !.name = lastOp.name]
               ELSE pre.clusters[i]
        /\ DOMAIN dataset.cells = DOMAIN pre.cells
        /\ \A i \in DOMAIN pre.cells :
             dataset.cells[i] =
               IF pre.cells[i].cluster = lastOp.clusterId
               THEN [pre.cells[i] EXCEPT !.cell_type = lastOp.name]
               ELSE pre.cells[i]

\* cluster 1 of the demo dataset, which holds two of the four cells, is
\* renamed
C26_Witness ==
  /\ lastOp.op = "Rename"
  /\ lastOp.clusterId = 1
  /\ lastOp.name = "Renamed"
  /\ lastOp.pre.cells = DemoCells
  /\ dataset.clusters[2].name = "Renamed"
  /\ dataset.clusters[1].name = "Cardiomyocytes"
  /\ dataset.cells[2].cell_type = "Renamed"
  /\ dataset.cells[4].cell_type = "Renamed"
  /\ dataset.cells[1].cell_type = "Cardiomyocytes"

\* C27: the dataset that "Load Dataset" hands to the application is the one
\* parsed from the most recently chosen file, the file whose name is
\* displayed, in whatever order the reads of the chosen files have completed.
C27_LoadsDisplayedFile ==
  (lastOp.op = "Confirm" /\ lastOp.loaded /\ lastOp.fileName # None /\ reads = {}) =>
    \E file \in UploadFiles \cup ChosenFiles :
      /\ FileName(file) = Val(lastOp.fileName)
      /\ lastOp.data = Some(file.content)
      /\ dataset = normalizeDataset(file.content)

\* C28: in every reachable state the selected-cell list held by the page and
\* the plot's committed selection set contain only cells of the current
\* dataset that pass the current cell filter.
C28_SelectionWithinView ==
  LET filtered == filteredCells(dataset.cells, Some(settings.cellFilter))
  IN  /\ \A i \in DOMAIN pageSelectedCells : Includes(filtered, pageSelectedCells[i])
      /\ selectedCells \subseteq {filtered[i].id : i \in DOMAIN filtered}

\* C29: in every reachable state the cell filter's selectedClusters holds
\* only ids of clusters that are in the current cluster list.
C29_FilterClustersExist ==
  \A i \in DOMAIN settings.cellFilter.selectedClusters :
    settings.cellFilter.selectedClusters[i] \in ClusterIds(dataset)

\* C30: a rename or a recoloring of a cluster leaves the expression value
\* resolved for the selected gene unchanged for every cell, for embedded and
\* for generated expression alike: the expression map after it is the map
\* before it.
C30_ExpressionKept ==
  lastOp.op \in {"Rename", "Color"} => res = lastOp.expression
====
